---- MODULE Spec2Model ----
(***************************************************************************)
(* Plugin orchestration engine of packages/core/src/pluginloader.ts:       *)
(* ordering of a loaded batch by priority and dependencies, and the apply  *)
(* pass that runs the extension callbacks with conflict detection.         *)
(***************************************************************************)
EXTENDS Integers, Sequences, FiniteSets, TLC

\* ------------------------------------------------------------------------
\* Bounds of the model
\* ------------------------------------------------------------------------
MaxPlugins == 3
MaxDeps == 3
MaxPriority == 0
MaxCallbacks == 3
MaxExt == 2
MaxArrLen == 1
MaxHooks == 2

\* ------------------------------------------------------------------------
\* Names
\* ------------------------------------------------------------------------
PluginNames == <<"p1", "p2", "p3", "p4", "p5">>
NotLoadedName == "px"
BatchNames(n) == {PluginNames[i] : i \in 1..n}

\* ConflictResolutionStrategy and the absent declaration
PRIORITY == "priority"
WARN_OVERRIDE == "warn_override"
MERGE == "merge"
ERROR == "error"
NoStrategy == "undefined"
ConflictResolutionStrategy == {PRIORITY, WARN_OVERRIDE, MERGE, ERROR}

\* the context keys applyExtensionWithConflictDetection walks, in its order
ContextKeys == <<"global", "host", "workspace", "parsers">>

VARIABLES
    plugins,         \* the loaded batch, in the order of the identifiers
    phase,           \* position of the host in the batch's life
    sorted,          \* the list loadPlugins returned
    loadError,       \* the error loadPlugins threw
    context,         \* the shared PluginExtensionContext
    propertyOwners,  \* ownerKey -> pluginName, of the running apply pass
    warnings,        \* console.warn calls, oldest first
    applyError,      \* the error applyPluginExtensions threw
    pi,              \* index in sorted of the plugin being applied
    ei,              \* index of the next extension of that plugin
    invoked,         \* log of the callbacks invoked, oldest first
    deferred         \* continuations of suspended callbacks, oldest first

\* the lifecycle dispatcher (executeBeforeRunHooks, executeAfterRunHooks,
\* executeErrorHooks)
VARIABLES
    lifecycleHooks,  \* plugin name -> its beforeRun, afterRun, onError hooks
    hookPass,        \* the entry point that was called, "none" before
    hpi,             \* index in the list of the plugin whose hook is next
    hei,             \* index of that hook in the plugin's list
    running,         \* hooks invoked whose promise has not settled
    hookLog,         \* start and end of every hook, oldest first
    errors,          \* the errors array of a fail-soft pass
    hookWarnings,    \* console.warn calls of the dispatcher
    passResult,      \* the promise the entry point returned
    lifecycleContext \* the context record the caller supplied

hookVars == <<lifecycleHooks, hookPass, hpi, hei, running, hookLog, errors,
              hookWarnings, passResult, lifecycleContext>>

\* the PluginRegistry of plugin.ts
VARIABLES
    registry,        \* the fields plugins, extensions and loaded
    loading,         \* the call of load() in flight, if any
    setupLog,        \* ids of the plugins whose setup was invoked, in order
    registerResult,  \* outcome of the last call of register
    opLog,           \* the registry operations called, oldest first
    overlapping      \* a second call of load() made while one is in flight

regVars == <<registry, loading, setupLog, registerResult, opLog, overlapping>>

\* loadPlugins while it loads the identifiers one after the other
VARIABLES
    batchLoad        \* the identifiers, the position of the loop, the errors array

vars == <<plugins, phase, sorted, loadError, context, propertyOwners,
          warnings, applyError, pi, ei, invoked, deferred, hookVars, regVars, batchLoad>>

\* ------------------------------------------------------------------------
\* Generic helpers
\* ------------------------------------------------------------------------
Range(s) == {s[i] : i \in DOMAIN s}

RECURSIVE SeqsUpTo(_, _)
\* sequences over S of length 0..k
SeqsUpTo(S, k) ==
    IF k = 0 THEN {<<>>}
    ELSE LET shorter == SeqsUpTo(S, k - 1)
         IN shorter \cup {Append(s, x) : s \in {t \in shorter : Len(t) = k - 1}, x \in S}

\* position of the plugin called name in the batch ps, 0 when not loaded
IndexOfName(ps, name) ==
    IF \E i \in DOMAIN ps : ps[i].name = name
    THEN CHOOSE i \in DOMAIN ps : ps[i].name = name
    ELSE 0

\* ------------------------------------------------------------------------
\* sortPluginsByPriorityAndDependencies
\* ------------------------------------------------------------------------
\* pluginMap.get(name): the loaded plugin of that name, or undefined
PluginMapHas(ps, name) == \E i \in DOMAIN ps : ps[i].name = name
PluginMapGet(ps, name) == ps[IndexOfName(ps, name)]

\* variant: a plugin without priority sorts behind every declared priority
PriorityOfMissingLast(p) == IF p.priority = <<>> THEN 0 - 1000 ELSE p.priority[1]

\* definition.priority || 0 ; an absent priority is the empty sequence
PriorityOf(p) == IF p.priority = <<>> THEN 0 ELSE p.priority[1]

NoCycle == <<>>

RECURSIVE detectCircular(_, _, _, _)
RECURSIVE detectCircularDeps(_, _, _, _, _)
\* variant: the plugin is not taken off the stack when its dependencies
\* have been walked
detectCircularKeepsStack(ps, name, visited, stack) ==
    IF name \in stack THEN [cycle |-> <<name>>, visited |-> visited, stack |-> stack]
    ELSE IF name \in visited THEN [cycle |-> NoCycle, visited |-> visited, stack |-> stack]
    ELSE LET r == detectCircularDeps(ps, name, 1, visited \cup {name}, stack \cup {name})
         IN IF r.cycle # NoCycle
            THEN [cycle |-> <<name>> \o r.cycle, visited |-> r.visited, stack |-> r.stack]
            ELSE [cycle |-> NoCycle, visited |-> r.visited, stack |-> r.stack]

\* detectCircular(plugin, visited, stack): the cycle found (NoCycle for null)
\* together with the two sets as the call leaves them
detectCircular(ps, name, visited, stack) ==
    IF name \in stack THEN [cycle |-> <<name>>, visited |-> visited, stack |-> stack]
    ELSE IF name \in visited THEN [cycle |-> NoCycle, visited |-> visited, stack |-> stack]
    ELSE LET r == detectCircularDeps(ps, name, 1, visited \cup {name}, stack \cup {name})
         IN IF r.cycle # NoCycle
            THEN [cycle |-> <<name>> \o r.cycle, visited |-> r.visited, stack |-> r.stack]
            ELSE [cycle |-> NoCycle, visited |-> r.visited, stack |-> r.stack \ {name}]

\* the for loop over plugin.definition.dependencies, from position i on
detectCircularDeps(ps, name, i, visited, stack) ==
    LET deps == PluginMapGet(ps, name).dependencies
    IN IF i > Len(deps) THEN [cycle |-> NoCycle, visited |-> visited, stack |-> stack]
       ELSE IF ~PluginMapHas(ps, deps[i])
            THEN detectCircularDeps(ps, name, i + 1, visited, stack)
            ELSE LET r == detectCircular(ps, deps[i], visited, stack)
                 IN IF r.cycle # NoCycle THEN r
                    ELSE detectCircularDeps(ps, name, i + 1, r.visited, r.stack)

RECURSIVE checkCircular(_, _, _, _)
\* the loop "for (const plugin of plugins)" that calls detectCircular
checkCircular(ps, i, visited, stack) ==
    IF i > Len(ps) THEN NoCycle
    ELSE LET r == detectCircular(ps, ps[i].name, visited, stack)
         IN IF r.cycle # NoCycle THEN r.cycle
            ELSE checkCircular(ps, i + 1, r.visited, r.stack)

NoLoadError == [kind |-> "none", cycle |-> <<>>, plugin |-> "", dep |-> ""]
CircularError(cycle) == [kind |-> "circular", cycle |-> cycle, plugin |-> "", dep |-> ""]
MissingError(name, dep) == [kind |-> "missing", cycle |-> <<>>, plugin |-> name, dep |-> dep]

RECURSIVE resolve(_, _, _)
RECURSIVE resolveDeps(_, _, _, _)
\* variant: a dependency that is not loaded is skipped, as detectCircular does
resolveDepsSkipMissing(ps, name, i, acc) ==
    LET deps == PluginMapGet(ps, name).dependencies
    IN IF i > Len(deps) THEN acc
       ELSE IF ~PluginMapHas(ps, deps[i])
            THEN resolveDeps(ps, name, i + 1, acc)
            ELSE LET r == resolve(ps, deps[i], acc)
                 IN IF r.error.kind # "none" THEN r
                    ELSE resolveDeps(ps, name, i + 1, r)

\* variant: a plugin that is already placed is placed again
resolveWithoutResolvedCheck(ps, name, acc) ==
    IF acc.error.kind # "none" THEN acc
    ELSE LET r == resolveDeps(ps, name, 1, acc)
         IN IF r.error.kind # "none" THEN r
            ELSE [sorted |-> Append(r.sorted, name),
                  resolved |-> r.resolved \cup {name},
                  error |-> r.error]

\* resolve(plugin): acc is [sorted, resolved, error]; an error is a throw
resolve(ps, name, acc) ==
    IF acc.error.kind # "none" THEN acc
    ELSE IF name \in acc.resolved THEN acc
    ELSE LET r == resolveDeps(ps, name, 1, acc)
         IN IF r.error.kind # "none" THEN r
            ELSE [sorted |-> Append(r.sorted, name),
                  resolved |-> r.resolved \cup {name},
                  error |-> r.error]

resolveDeps(ps, name, i, acc) ==
    LET deps == PluginMapGet(ps, name).dependencies
    IN IF i > Len(deps) THEN acc
       ELSE IF ~PluginMapHas(ps, deps[i])
            THEN [acc EXCEPT !.error = MissingError(name, deps[i])]
            ELSE LET r == resolve(ps, deps[i], acc)
                 IN IF r.error.kind # "none" THEN r
                    ELSE resolveDeps(ps, name, i + 1, r)

RECURSIVE insertByPriority(_, _, _)
\* variant: a plugin is placed in front of the plugins of its own priority
insertByPriorityBeforeTies(p, s, i) ==
    IF i > Len(s) THEN Append(s, p)
    ELSE IF PriorityOf(s[i]) <= PriorityOf(p)
         THEN SubSeq(s, 1, i - 1) \o <<p>> \o SubSeq(s, i, Len(s))
         ELSE insertByPriority(p, s, i + 1)

\* place plugin p in the list s, sorted so far: behind every plugin whose
\* priority is not lower (the comparator priorityB - priorityA, stable)
insertByPriority(p, s, i) ==
    IF i > Len(s) THEN Append(s, p)
    ELSE IF PriorityOf(s[i]) < PriorityOf(p)
         THEN SubSeq(s, 1, i - 1) \o <<p>> \o SubSeq(s, i, Len(s))
         ELSE insertByPriority(p, s, i + 1)

\* variant: the batch is left in the order of the identifiers
byPriorityUnsorted(ps, n) == SubSeq(ps, 1, n)

RECURSIVE byPriority(_, _)
\* [...plugins].sort((a, b) => priorityB - priorityA) of the first n plugins
byPriority(ps, n) ==
    IF n = 0 THEN <<>>
    ELSE insertByPriority(ps[n], byPriority(ps, n - 1), 1)

RECURSIVE resolveAll(_, _, _, _)
\* the loop "for (const plugin of byPriority) resolve(plugin)"
resolveAll(ps, order, i, acc) ==
    IF i > Len(order) \/ acc.error.kind # "none" THEN acc
    ELSE resolveAll(ps, order, i + 1, resolve(ps, order[i].name, acc))

\* variant: the priority order is returned without resolving dependencies
sortByPriorityOnly(ps) ==
    LET cycle == checkCircular(ps, 1, {}, {})
        order == byPriority(ps, Len(ps))
    IN IF cycle # NoCycle
       THEN [sorted |-> <<>>, error |-> CircularError(cycle)]
       ELSE [sorted |-> [i \in DOMAIN order |-> order[i].name], error |-> NoLoadError]

\* the whole function: [sorted |-> names in resolved order, error |-> thrown]
sortPluginsByPriorityAndDependencies(ps) ==
    LET cycle == checkCircular(ps, 1, {}, {})
    IN IF cycle # NoCycle
       THEN [sorted |-> <<>>, error |-> CircularError(cycle)]
       ELSE LET r == resolveAll(ps, byPriority(ps, Len(ps)), 1,
                                [sorted |-> <<>>, resolved |-> {}, error |-> NoLoadError])
            IN IF r.error.kind # "none"
               THEN [sorted |-> <<>>, error |-> r.error]
               ELSE [sorted |-> r.sorted, error |-> NoLoadError]

\* variant: dependencies that are not loaded are reported before cycles are
\* looked for
loadPluginsMissingFirst(ps) ==
    LET missing == {e \in (DOMAIN ps) \X (1..MaxDeps) :
                       /\ e[2] \in DOMAIN ps[e[1]].dependencies
                       /\ ~PluginMapHas(ps, ps[e[1]].dependencies[e[2]])}
        r == sortPluginsByPriorityAndDependencies(ps)
    IN IF missing # {}
       THEN LET e == CHOOSE m \in missing : TRUE
            IN [ok |-> FALSE, sorted |-> <<>>,
                error |-> MissingError(ps[e[1]].name, ps[e[1]].dependencies[e[2]])]
       ELSE IF r.error.kind # "none"
       THEN [ok |-> FALSE, sorted |-> <<>>, error |-> r.error]
       ELSE [ok |-> TRUE, sorted |-> r.sorted, error |-> NoLoadError]

\* variant: the catch falls back to the unsorted batch instead of throwing
loadPluginsFallback(ps) ==
    LET r == sortPluginsByPriorityAndDependencies(ps)
    IN IF r.error.kind # "none"
       THEN [ok |-> TRUE, sorted |-> [i \in DOMAIN ps |-> ps[i].name], error |-> r.error]
       ELSE [ok |-> TRUE, sorted |-> r.sorted, error |-> NoLoadError]

\* loadPlugins, after every identifier has loaded: the try/catch around the
\* sort; nothing is returned when the sort throws
loadPlugins(ps) ==
    LET r == sortPluginsByPriorityAndDependencies(ps)
    IN IF r.error.kind # "none"
       THEN [ok |-> FALSE, sorted |-> <<>>, error |-> r.error]
       ELSE [ok |-> TRUE, sorted |-> r.sorted, error |-> NoLoadError]

\* ------------------------------------------------------------------------
\* Values a plugin can store in a context: numbers, functions, null,
\* arrays and plain objects, all in one record shape
\* ------------------------------------------------------------------------
NoFields == <<>>
Num(n) == [t |-> "num", n |-> n, items |-> <<>>, fields |-> NoFields]
Fn(n) == [t |-> "fn", n |-> n, items |-> <<>>, fields |-> NoFields]
Null == [t |-> "null", n |-> 0, items |-> <<>>, fields |-> NoFields]
Arr(items) == [t |-> "arr", n |-> 0, items |-> items, fields |-> NoFields]
Obj(fields) == [t |-> "obj", n |-> 0, items |-> <<>>, fields |-> fields]

RECURSIVE jsonClone(_)
\* JSON.parse(JSON.stringify(v)) of a value that JSON keeps (not a function):
\* a function inside an array becomes null, one inside an object is dropped
jsonClone(v) ==
    IF v.t = "arr"
    THEN Arr([i \in DOMAIN v.items |->
                 IF v.items[i].t = "fn" THEN Null ELSE jsonClone(v.items[i])])
    ELSE IF v.t = "obj"
    THEN Obj([k \in {f \in DOMAIN v.fields : v.fields[f].t # "fn"} |->
                 jsonClone(v.fields[k])])
    ELSE v

RECURSIVE deepMerge(_, _)
deepMerge(target, source) ==
    IF target.t = "arr" /\ source.t = "arr"
    THEN Arr(target.items \o source.items)
    ELSE IF target.t = "obj" /\ source.t = "obj"
    THEN Obj([k \in DOMAIN target.fields \cup DOMAIN source.fields |->
                 IF k \notin DOMAIN source.fields THEN target.fields[k]
                 ELSE IF k \in DOMAIN target.fields
                      THEN deepMerge(target.fields[k], source.fields[k])
                      ELSE source.fields[k]])
    ELSE source

\* ------------------------------------------------------------------------
\* The shared context: per context key an object (or undefined) whose
\* properties are kept in insertion order
\* ------------------------------------------------------------------------
ContextKeySet == Range(ContextKeys)
UndefinedObj == [defined |-> FALSE, props |-> <<>>]
EmptyContext == [c \in ContextKeySet |-> UndefinedObj]

HasProp(props, key) == \E i \in DOMAIN props : props[i].key = key
PropIndex(props, key) == CHOOSE i \in DOMAIN props : props[i].key = key
GetProp(props, key) == props[PropIndex(props, key)].val

\* obj[key] = val
SetProp(props, key, val) ==
    IF HasProp(props, key)
    THEN [props EXCEPT ![PropIndex(props, key)].val = val]
    ELSE Append(props, [key |-> key, val |-> val])

RECURSIVE jsonCloneProps(_)
\* JSON round trip of one context object: function-valued properties vanish
jsonCloneProps(props) ==
    IF props = <<>> THEN <<>>
    ELSE LET rest == jsonCloneProps(Tail(props))
         IN IF Head(props).val.t = "fn" THEN rest
            ELSE <<[key |-> Head(props).key, val |-> jsonClone(Head(props).val)]>> \o rest

\* contextBefore = JSON.parse(JSON.stringify(context))
snapshotContext(ctx) ==
    [c \in ContextKeySet |->
        [defined |-> ctx[c].defined, props |-> jsonCloneProps(ctx[c].props)]]

\* an extension callback of the model: "if (!context[ns]) context[ns] = {}"
\* and one assignment, or a throw
WriteCb(ns, key, val) == [kind |-> "write", ns |-> ns, key |-> key, val |-> val]
\* an async callback: it suspends (await) before it makes its assignment, so
\* the call returns a pending promise and has changed nothing yet
DeferCb(ns, key, val) == [kind |-> "defer", ns |-> ns, key |-> key, val |-> val]
ThrowCb == [kind |-> "throw", ns |-> "", key |-> "", val |-> Null]

runExtension(cb, ctx) ==
    IF cb.kind = "write"
    THEN [ctx EXCEPT ![cb.ns] = [defined |-> TRUE,
                                 props |-> SetProp(ctx[cb.ns].props, cb.key, cb.val)]]
    ELSE ctx

\* ------------------------------------------------------------------------
\* applyExtensionWithConflictDetection
\* ------------------------------------------------------------------------
NoApplyError == [kind |-> "none", plugin |-> "", writer |-> "", owner |-> "",
                 path |-> <<>>]
\* "Plugin 'writer' is overriding 'path' previously set by plugin 'owner'"
ConflictMessage(writer, path, owner) == [writer |-> writer, path |-> path, owner |-> owner]

\* plugin.definition.conflictResolution || WARN_OVERRIDE
StrategyOf(p) ==
    IF p.conflictResolution = NoStrategy THEN WARN_OVERRIDE ELSE p.conflictResolution

\* propertyOwners.set(ownerKey, {pluginName, path})
SetOwner(owners, ownerKey, name) ==
    [k \in DOMAIN owners \cup {ownerKey} |-> IF k = ownerKey THEN name ELSE owners[k]]

\* variant: the PRIORITY case leaves the recorded owner as it is
resolveConflictPriorityKeepsOwner(acc, strategy, c, key, beforeVal, name) ==
    LET ownerKey == <<c, key>>
        message == ConflictMessage(name, ownerKey, acc.owners[ownerKey])
    IN IF strategy = ERROR
       THEN [acc EXCEPT !.error = message]
       ELSE IF strategy = WARN_OVERRIDE
       THEN [acc EXCEPT !.warnings = Append(@, message),
                        !.owners = SetOwner(@, ownerKey, name)]
       ELSE IF strategy = MERGE
       THEN [acc EXCEPT !.ctx[c].props =
                 SetProp(@, key, deepMerge(beforeVal, GetProp(@, key)))]
       ELSE acc

\* the switch (strategy) of a detected conflict on context[c][key];
\* acc is [ctx, owners, warnings, error]
resolveConflict(acc, strategy, c, key, beforeVal, name) ==
    LET ownerKey == <<c, key>>
        message == ConflictMessage(name, ownerKey, acc.owners[ownerKey])
    IN IF strategy = ERROR
       THEN [acc EXCEPT !.error = message]
       ELSE IF strategy = WARN_OVERRIDE
       THEN [acc EXCEPT !.warnings = Append(@, message),
                        !.owners = SetOwner(@, ownerKey, name)]
       ELSE IF strategy = MERGE
       THEN [acc EXCEPT !.ctx[c].props =
                 SetProp(@, key, deepMerge(beforeVal, GetProp(@, key)))]
       ELSE [acc EXCEPT !.owners = SetOwner(@, ownerKey, name)]

\* the body of "for (const propKey in afterObj)" for the j-th property
checkProperty(acc, beforeProps, c, j, p) ==
    LET key == acc.ctx[c].props[j].key
        ownerKey == <<c, key>>
        name == p.name
    IN IF HasProp(beforeProps, key)
       THEN IF ownerKey \in DOMAIN acc.owners /\ acc.owners[ownerKey] # name
            THEN resolveConflict(acc, StrategyOf(p), c, key, GetProp(beforeProps, key), name)
            ELSE IF ownerKey \notin DOMAIN acc.owners
                 THEN [acc EXCEPT !.owners = SetOwner(@, ownerKey, name)]
                 ELSE acc
       ELSE [acc EXCEPT !.owners = SetOwner(@, ownerKey, name)]

NoMessage == [writer |-> "", path |-> <<>>, owner |-> ""]

RECURSIVE checkProperties(_, _, _, _, _)
\* the two nested loops, from context key number ci and property j on;
\* a thrown error ends them
checkProperties(acc, before, ci, j, p) ==
    IF acc.error # NoMessage \/ ci > Len(ContextKeys) THEN acc
    ELSE LET c == ContextKeys[ci]
         IN IF ~acc.ctx[c].defined \/ j > Len(acc.ctx[c].props)
            THEN checkProperties(acc, before, ci + 1, 1, p)
            ELSE checkProperties(checkProperty(acc, before[c].props, c, j, p),
                                 before, ci, j + 1, p)

\* one call: the snapshot, the callback, the conflict check; error is
\* NoMessage, a conflict message or "thrown" for an error of the callback
CallbackThrew == [writer |-> "thrown", path |-> <<>>, owner |-> ""]

\* variant: an error thrown by the callback is swallowed
applyExtensionSwallowsThrow(cb, ctx, p, owners, warns) ==
    LET contextBefore == snapshotContext(ctx)
    IN IF cb.kind = "throw"
       THEN [ctx |-> ctx, owners |-> owners, warnings |-> warns, error |-> NoMessage]
       ELSE checkProperties([ctx |-> runExtension(cb, ctx), owners |-> owners,
                             warnings |-> warns, error |-> NoMessage],
                            contextBefore, 1, 1, p)

applyExtensionWithConflictDetection(cb, ctx, p, owners, warns) ==
    LET contextBefore == snapshotContext(ctx)
    IN IF cb.kind = "throw"
       THEN [ctx |-> ctx, owners |-> owners, warnings |-> warns, error |-> CallbackThrew]
       ELSE checkProperties([ctx |-> runExtension(cb, ctx), owners |-> owners,
                             warnings |-> warns, error |-> NoMessage],
                            contextBefore, 1, 1, p)

\* ------------------------------------------------------------------------
\* applyPluginExtensions: the position of the two loops
\* ------------------------------------------------------------------------
SortedPlugin(i) == PluginMapGet(plugins, sorted[i])

\* variant: the walk jumps to the last plugin of the list that has an extension
NextWithExtensionsLast(i) ==
    IF \E k \in i..Len(sorted) : SortedPlugin(k).extensions # <<>>
    THEN CHOOSE k \in i..Len(sorted) :
            /\ SortedPlugin(k).extensions # <<>>
            /\ \A m \in (k + 1)..Len(sorted) : SortedPlugin(m).extensions = <<>>
    ELSE 0

\* first index >= i of a plugin of the list that has an extension, 0 if none
NextWithExtensions(i) ==
    IF \E k \in i..Len(sorted) : SortedPlugin(k).extensions # <<>>
    THEN CHOOSE k \in i..Len(sorted) :
            /\ SortedPlugin(k).extensions # <<>>
            /\ \A m \in i..(k - 1) : SortedPlugin(m).extensions = <<>>
    ELSE 0

\* "Error applying extension from plugin 'name': message"
WrapApplyError(name, e) ==
    IF e = CallbackThrew
    THEN [kind |-> "callback", plugin |-> name, writer |-> "", owner |-> "", path |-> <<>>]
    ELSE [kind |-> "conflict", plugin |-> name, writer |-> e.writer, owner |-> e.owner,
          path |-> e.path]

\* ------------------------------------------------------------------------
\* loadPlugins: the loop over the identifiers
\* ------------------------------------------------------------------------
\* what loadPlugin(identifier) does: it returns a LoadedPlugin, or it throws
\* the Error of a failed import, of validatePlugin or of a failed setup
LoadOutcomes == {"ok", "importFailed", "invalidPlugin", "setupFailed"}

\* "Failed to load plugins:\n  - identifier: message ..."
FailedToLoadError == [kind |-> "failedToLoad", cycle |-> <<>>, plugin |-> "", dep |-> ""]

\* loadPlugins is not running; thrown is the list of the error it threw
NoBatchLoad == [identifiers |-> <<>>, next |-> 0, attempts |-> <<>>, errors |-> <<>>,
                thrown |-> <<>>]

\* variant: the loop is left at the first identifier that fails
nextIdentifierStopAtFailure(i, failed) ==
    IF failed THEN Len(batchLoad.identifiers) + 1 ELSE i + 1
\* the for-of loop goes on with the next identifier, also after a failure
nextIdentifier(i, failed) == i + 1

\* one iteration of "for (const identifier of pluginIdentifiers)"
LoadPlugin ==
    /\ phase = "Loading"
    /\ batchLoad.next <= Len(batchLoad.identifiers)
    /\ LET e == batchLoad.identifiers[batchLoad.next]
           failed == e.outcome # "ok"
       IN /\ plugins' = IF failed THEN plugins ELSE Append(plugins, e.plugin)
          /\ batchLoad' =
                [batchLoad EXCEPT
                    !.attempts = Append(@, e.identifier),
                    !.errors = IF failed
                               THEN Append(@, [identifier |-> e.identifier,
                                               message |-> e.outcome])
                               ELSE @,
                    !.next = nextIdentifier(batchLoad.next, failed)]
    /\ UNCHANGED <<phase, sorted, loadError, context, propertyOwners, warnings, applyError,
                   pi, ei, invoked, deferred, hookVars, regVars>>

\* behind the loop: the error listing the failures, or the sort
FinishLoadPlugins ==
    /\ phase = "Loading"
    /\ batchLoad.next > Len(batchLoad.identifiers)
    /\ IF Len(batchLoad.errors) > 0
       THEN /\ phase' = "LoadFailed"
            /\ sorted' = <<>>
            /\ loadError' = FailedToLoadError
            /\ batchLoad' = [batchLoad EXCEPT !.thrown = batchLoad.errors]
       ELSE LET r == loadPlugins(plugins)
            IN /\ phase' = IF r.ok THEN "Ordered" ELSE "OrderFailed"
               /\ sorted' = r.sorted
               /\ loadError' = r.error
               /\ batchLoad' = batchLoad
    /\ UNCHANGED <<plugins, context, propertyOwners, warnings, applyError, pi, ei, invoked,
                   deferred, hookVars, regVars>>

\* the steps of one call of loadPlugins
NextLoad == LoadPlugin \/ FinishLoadPlugins

\* ------------------------------------------------------------------------
\* Actions
\* ------------------------------------------------------------------------
\* the host calls loadPlugins
LoadPlugins ==
    /\ phase = "Unvalidated"
    /\ LET r == loadPlugins(plugins)
       IN /\ phase' = IF r.ok THEN "Ordered" ELSE "OrderFailed"
          /\ sorted' = r.sorted
          /\ loadError' = r.error
    /\ UNCHANGED <<plugins, context, propertyOwners, warnings, applyError, pi, ei, invoked,
                   deferred, hookVars, regVars, batchLoad>>

\* the host calls applyPluginExtensions with the list loadPlugins returned
ApplyPluginExtensions ==
    /\ phase = "Ordered"
    /\ propertyOwners' = <<>>
    /\ LET first == NextWithExtensions(1)
       IN /\ phase' = IF first = 0 THEN "ExtensionsApplied" ELSE "Applying"
          /\ pi' = first
          /\ ei' = IF first = 0 THEN 0 ELSE 1
    /\ UNCHANGED <<plugins, sorted, loadError, context, warnings, applyError, invoked,
                   deferred, hookVars, regVars, batchLoad>>

\* one iteration of the inner loop of applyPluginExtensions
ApplyExtension ==
    /\ phase = "Applying"
    /\ LET p == SortedPlugin(pi)
           r == applyExtensionWithConflictDetection(p.extensions[ei], context, p,
                                                    propertyOwners, warnings)
           next == IF ei < Len(p.extensions) THEN pi ELSE NextWithExtensions(pi + 1)
       IN /\ invoked' = Append(invoked, <<p.name, ei>>)
          /\ deferred' = IF p.extensions[ei].kind = "defer"
                         THEN Append(deferred, [plugin |-> p.name, k |-> Len(invoked) + 1])
                         ELSE deferred
          /\ context' = r.ctx
          /\ propertyOwners' = r.owners
          /\ warnings' = r.warnings
          /\ IF r.error # NoMessage
             THEN /\ applyError' = WrapApplyError(p.name, r.error)
                  /\ phase' = "ApplyFailed"
                  /\ UNCHANGED <<pi, ei>>
             ELSE /\ applyError' = applyError
                  /\ phase' = IF next = 0 THEN "ExtensionsApplied" ELSE "Applying"
                  /\ pi' = next
                  /\ ei' = IF next = pi THEN ei + 1 ELSE IF next = 0 THEN 0 ELSE 1
    /\ UNCHANGED <<plugins, sorted, loadError, hookVars, regVars, batchLoad>>

Next == LoadPlugins \/ ApplyPluginExtensions \/ ApplyExtension

\* the continuation of a suspended callback runs: the promise extension()
\* returned is not awaited, so this happens once applyPluginExtensions has
\* returned or thrown, oldest continuation first, and nothing checks the
\* assignment for conflicts
RunDeferred ==
    /\ phase \in {"ExtensionsApplied", "ApplyFailed"}
    /\ deferred # <<>>
    /\ LET cb == PluginMapGet(plugins, Head(deferred).plugin).extensions[
                     invoked[Head(deferred).k][2]]
       IN context' = runExtension(WriteCb(cb.ns, cb.key, cb.val), context)
    /\ deferred' = Tail(deferred)
    /\ UNCHANGED <<plugins, phase, sorted, loadError, propertyOwners, warnings, applyError,
                   pi, ei, invoked, hookVars, regVars, batchLoad>>

\* the steps of a batch whose callbacks may be async functions
NextAsync == LoadPlugins \/ ApplyPluginExtensions \/ ApplyExtension \/ RunDeferred

\* ------------------------------------------------------------------------
\* The lifecycle hooks and the three entry points of the dispatcher
\* ------------------------------------------------------------------------
\* what a hook does when it is called: it returns, it returns a promise
\* that resolves later, it throws an Error, it returns a promise that
\* rejects with an Error later, or it throws the value undefined
HookKinds == {"ok", "asyncOk", "throwError", "rejectError", "throwUndefined"}
IsAsyncHook(kind) == kind \in {"asyncOk", "rejectError"}
\* the value the catch block receives, "none" when the hook succeeds
ThrownBy(kind) ==
    IF kind \in {"throwError", "rejectError"} THEN "Error"
    ELSE IF kind = "throwUndefined" THEN "undefined"
    ELSE "none"

\* plugin.lifecycleHooks[pass] || [] of the i-th plugin of the list
HooksOfPass(pass, i) ==
    IF sorted[i] \in DOMAIN lifecycleHooks THEN lifecycleHooks[sorted[i]][pass] ELSE <<>>
HooksOf(i) == HooksOfPass(hookPass, i)

\* first index >= i of a plugin of the list that has a hook of the pass
NextWithHooks(pass, i) ==
    IF \E k \in i..Len(sorted) : HooksOfPass(pass, k) # <<>>
    THEN CHOOSE k \in i..Len(sorted) :
            /\ HooksOfPass(pass, k) # <<>>
            /\ \A m \in i..(k - 1) : HooksOfPass(pass, m) = <<>>
    ELSE 0

\* the promise an entry point returns
PassNotCalled == [state |-> "none", plugin |-> "", error |-> ""]
PassPending == [state |-> "pending", plugin |-> "", error |-> ""]
PassResolved == [state |-> "resolved", plugin |-> "", error |-> ""]
\* new Error("beforeRun hook failed for plugin 'name': message")
PassRejected(name) == [state |-> "rejected", plugin |-> name, error |-> "Error"]
\* the TypeError of reading error.message when error is undefined
PassRejectedTypeError == [state |-> "rejected", plugin |-> "", error |-> "TypeError"]

\* the context a pass is called with: only an on-error pass carries an error
NoErrorContext == [error |-> "none"]
ErrorContext == [error |-> "scriptError"]

\* a dispatcher that hands every hook a context without the error
HookArgumentWithoutError == NoErrorContext
\* the argument of hook(context)
HookArgument == lifecycleContext

\* a dispatcher that calls hook(context) without awaiting it
CanInvokeNextNoAwait == TRUE
\* the dispatcher is not suspended in "await hook(context)"
CanInvokeNext == running = <<>>

\* what follows the end of the hook at (hpi, hei) that threw the value
\* thrown ("none" when it did not throw): the catch block, the next
\* iteration of the loops and, behind the loops, the report of a fail-soft
\* pass. The result is [errors, warnings, result, hpi, hei].
afterHook(thrown) ==
    LET name == sorted[hpi]
        next == IF hei < Len(HooksOf(hpi)) THEN hpi ELSE NextWithHooks(hookPass, hpi + 1)
        errs == IF thrown = "Error"
                THEN Append(errors, [plugin |-> name, error |-> thrown])
                ELSE errors
    IN IF thrown = "undefined"
       THEN [errors |-> errors, warnings |-> hookWarnings,
             result |-> PassRejectedTypeError, hpi |-> hpi, hei |-> hei]
       ELSE IF thrown = "Error" /\ hookPass = "beforeRun"
       THEN [errors |-> errors, warnings |-> hookWarnings,
             result |-> PassRejected(name), hpi |-> hpi, hei |-> hei]
       ELSE IF next = 0
       THEN [errors |-> errs,
             warnings |-> IF Len(errs) > 0
                          THEN Append(hookWarnings, [pass |-> hookPass, failures |-> errs])
                          ELSE hookWarnings,
             result |-> PassResolved, hpi |-> 0, hei |-> 0]
       ELSE [errors |-> errs, warnings |-> hookWarnings, result |-> PassPending,
             hpi |-> next, hei |-> IF next = hpi THEN hei + 1 ELSE 1]

\* the call of an entry point: the function runs until its first await, or to its end when the list has no
\* hook of the pass
StartPass(pass, ctx) ==
    /\ hookPass' = pass
    /\ lifecycleContext' = ctx
    /\ LET first == NextWithHooks(pass, 1)
       IN /\ hpi' = first
          /\ hei' = IF first = 0 THEN 0 ELSE 1
          /\ passResult' = IF first = 0 THEN PassResolved ELSE PassPending
    /\ UNCHANGED <<plugins, phase, sorted, loadError, context, propertyOwners, warnings,
                   applyError, pi, ei, invoked, deferred, lifecycleHooks, running, hookLog,
                   errors, hookWarnings, regVars, batchLoad>>

\* the host calls one entry point with the list loadPlugins returned
ExecuteBeforeRunHooks ==
    /\ phase = "Ordered"
    /\ hookPass = "none"
    /\ StartPass("beforeRun", NoErrorContext)

ExecuteAfterRunHooks ==
    /\ phase = "Ordered"
    /\ hookPass = "none"
    /\ StartPass("afterRun", NoErrorContext)

ExecuteErrorHooks ==
    /\ phase = "Ordered"
    /\ hookPass = "none"
    /\ StartPass("onError", ErrorContext)

HookStart(name, idx) ==
    [ev |-> "start", plugin |-> name, idx |-> idx, error |-> HookArgument.error]
HookEnd(name, idx) ==
    [ev |-> "end", plugin |-> name, idx |-> idx, error |-> HookArgument.error]

\* "await hook(context)": the hook is called; one that returns or throws at
\* once is over, one that returns a pending promise suspends the dispatcher
InvokeHook ==
    /\ passResult.state = "pending"
    /\ hpi # 0
    /\ CanInvokeNext
    /\ LET name == sorted[hpi]
           kind == HooksOf(hpi)[hei]
           r == afterHook(ThrownBy(kind))
       IN IF IsAsyncHook(kind)
          THEN /\ running' = Append(running, [plugin |-> name, idx |-> hei, kind |-> kind])
               /\ hookLog' = Append(hookLog, HookStart(name, hei))
               /\ UNCHANGED <<errors, hookWarnings, passResult, hpi, hei>>
          ELSE /\ running' = running
               /\ hookLog' = hookLog \o <<HookStart(name, hei), HookEnd(name, hei)>>
               /\ errors' = r.errors
               /\ hookWarnings' = r.warnings
               /\ passResult' = r.result
               /\ hpi' = r.hpi
               /\ hei' = r.hei
    /\ UNCHANGED <<plugins, phase, sorted, loadError, context, propertyOwners, warnings,
                   applyError, pi, ei, invoked, deferred, lifecycleHooks, hookPass,
                   lifecycleContext, regVars, batchLoad>>

\* the promise of the hook in flight settles and the dispatcher resumes
SettleHook ==
    /\ passResult.state = "pending"
    /\ running # <<>>
    /\ LET h == Head(running)
           r == afterHook(ThrownBy(h.kind))
       IN /\ running' = Tail(running)
          /\ hookLog' = Append(hookLog, HookEnd(h.plugin, h.idx))
          /\ errors' = r.errors
          /\ hookWarnings' = r.warnings
          /\ passResult' = r.result
          /\ hpi' = r.hpi
          /\ hei' = r.hei
    /\ UNCHANGED <<plugins, phase, sorted, loadError, context, propertyOwners, warnings,
                   applyError, pi, ei, invoked, deferred, lifecycleHooks, hookPass,
                   lifecycleContext, regVars, batchLoad>>

\* the steps of a batch whose lifecycle hooks are dispatched
NextHooks ==
    \/ LoadPlugins
    \/ ExecuteBeforeRunHooks
    \/ ExecuteAfterRunHooks
    \/ ExecuteErrorHooks
    \/ InvokeHook
    \/ SettleHook

\* ------------------------------------------------------------------------
\* Initial states
\* ------------------------------------------------------------------------
\* the dispatcher before any entry point is called
InitDispatcher ==
    /\ hookPass = "none"
    /\ hpi = 0
    /\ hei = 0
    /\ running = <<>>
    /\ hookLog = <<>>
    /\ errors = <<>>
    /\ hookWarnings = <<>>
    /\ passResult = PassNotCalled
    /\ lifecycleContext = NoErrorContext

\* ------------------------------------------------------------------------
\* The PluginRegistry (plugin.ts)
\* ------------------------------------------------------------------------
\* most operations called on one registry
MaxOps == 5

\* ids of the plugins a host registers
RegIds == {"a", "b"}
\* setup(extend): "sync" calls extend and returns; "async" returns a promise
\* and calls extend when it resumes; "throw" throws before it calls extend
SetupKinds == {"sync", "async", "throw"}
RegPlugins == [id : RegIds, setup : SetupKinds]

\* the context a plugin hands to extend: plugin "a" adds global.a, every
\* other plugin adds host.<id>
ExtensionOf(p) == [ctx |-> IF p.id = "a" THEN "global" ELSE "host", key |-> p.id]

\* a registry as its constructor leaves it
EmptyRegistry ==
    [plugins |-> <<>>, extensions |-> [c \in ContextKeySet |-> {}], loaded |-> FALSE]
\* no call of load() is in flight. While one is, i is the index of the
\* plugin whose setup is awaited; the loop iterates this.plugins as long as
\* detached is FALSE, and the array in list once clear() has replaced
\* this.plugins
NotLoading == [active |-> FALSE, detached |-> FALSE, list |-> <<>>, i |-> 0]

IsRegistered(reg, id) == \E k \in DOMAIN reg.plugins : reg.plugins[k].id = id

\* a register that resets the loaded flag before it checks the id
registerResetsLoadedFirst(reg, p) ==
    IF IsRegistered(reg, p.id)
    THEN [registry |-> [reg EXCEPT !.loaded = FALSE], result |-> "alreadyRegistered"]
    ELSE [registry |-> [reg EXCEPT !.plugins = Append(@, p), !.loaded = FALSE],
          result |-> "ok"]
\* register(plugin): the registry after the call and whether it threw
register(reg, p) ==
    IF IsRegistered(reg, p.id)
    THEN [registry |-> reg, result |-> "alreadyRegistered"]
    ELSE [registry |-> [reg EXCEPT !.plugins = Append(@, p), !.loaded = FALSE],
          result |-> "ok"]

RECURSIVE registerAll(_, _)
\* registerAll(plugins): register one after the other, up to the first throw
registerAll(reg, ps) ==
    IF ps = <<>> THEN [registry |-> reg, result |-> "ok"]
    ELSE LET r == register(reg, Head(ps))
         IN IF r.result = "ok" THEN registerAll(r.registry, Tail(ps)) ELSE r

\* mergeExtensions(context): Object.assign into the current this.extensions
mergeExtensions(reg, ext) ==
    [reg EXCEPT !.extensions[ext.ctx] = @ \cup {ext.key}]

\* a load that does not look at the loaded flag
AlreadyLoadedIgnored(reg) == FALSE
\* "if (this.loaded) return"
AlreadyLoaded(reg) == reg.loaded

\* the array the for-of loop of load() iterates
LoadList == IF loading.detached THEN loading.list ELSE registry.plugins

\* iteration i of the loop of load() up to its await, or the end of load()
\* when the array has no i-th plugin
enterIteration(reg, list, i, log) ==
    IF i > Len(list)
    THEN [registry |-> [reg EXCEPT !.loaded = TRUE], setupLog |-> log, status |-> "done"]
    ELSE LET p == list[i]
         IN IF p.setup = "throw"
            THEN [registry |-> reg, setupLog |-> Append(log, p.id), status |-> "failed"]
            ELSE IF p.setup = "sync"
            THEN [registry |-> mergeExtensions(reg, ExtensionOf(p)),
                  setupLog |-> Append(log, p.id), status |-> "awaiting"]
            ELSE [registry |-> reg, setupLog |-> Append(log, p.id), status |-> "awaiting"]

RegEvent(op, id, result) == [op |-> op, id |-> id, result |-> result]
CanCall == Len(opLog) < MaxOps

loaderVars == <<plugins, phase, sorted, loadError, context, propertyOwners, warnings,
                applyError, pi, ei, invoked, deferred, batchLoad>>

\* registry.register(p)
Register ==
    /\ CanCall
    /\ \E p \in RegPlugins :
         LET r == register(registry, p)
         IN /\ registry' = r.registry
            /\ registerResult' = r.result
            /\ opLog' = Append(opLog, RegEvent("register", p.id, r.result))
    /\ UNCHANGED <<loading, overlapping, setupLog, loaderVars, hookVars>>

\* registry.registerAll([p, q])
RegisterAll ==
    /\ CanCall
    /\ \E p \in RegPlugins, q \in RegPlugins :
         LET r == registerAll(registry, <<p, q>>)
         IN /\ registry' = r.registry
            /\ registerResult' = r.result
            /\ opLog' = Append(opLog, RegEvent("registerAll", p.id, r.result))
    /\ UNCHANGED <<loading, overlapping, setupLog, loaderVars, hookVars>>

\* what a step of load() leaves: the registry, the setups invoked and the
\* position of the loop, or the end of the call
loadOutcome(r, i) ==
    /\ registry' = r.registry
    /\ setupLog' = r.setupLog
    /\ IF r.status = "awaiting"
       THEN /\ loading' = [loading EXCEPT !.active = TRUE, !.i = i]
            /\ opLog' = opLog
       ELSE /\ loading' = NotLoading
            /\ opLog' = Append(opLog, RegEvent(IF r.status = "done" THEN "loadDone"
                                                ELSE "loadFailed", "", r.status))

\* registry.load() is called: it returns at once when the registry is
\* loaded, otherwise it runs up to the await of the first setup
Load ==
    /\ CanCall
    /\ ~loading.active
    /\ IF AlreadyLoaded(registry)
       THEN /\ opLog' = Append(opLog, RegEvent("loadSkip", "", "done"))
            /\ UNCHANGED <<registry, loading, setupLog>>
       ELSE LET r == enterIteration(registry, registry.plugins, 1, setupLog)
            IN /\ registry' = r.registry
               /\ setupLog' = r.setupLog
               /\ IF r.status = "awaiting"
                  THEN /\ loading' = [NotLoading EXCEPT !.active = TRUE, !.i = 1]
                       /\ opLog' = Append(opLog, RegEvent("loadCall", "", "pending"))
                  ELSE /\ loading' = NotLoading
                       /\ opLog' = opLog \o <<RegEvent("loadCall", "", "pending"),
                                              RegEvent(IF r.status = "done" THEN "loadDone"
                                                       ELSE "loadFailed", "", r.status)>>
    /\ UNCHANGED <<overlapping, registerResult, loaderVars, hookVars>>

\* the awaited setup settles: an asynchronous setup calls extend first; then
\* load() goes on with the next plugin of the array it iterates
ResumeLoad ==
    /\ loading.active
    /\ LET p == LoadList[loading.i]
           reg == IF p.setup = "async" THEN mergeExtensions(registry, ExtensionOf(p))
                  ELSE registry
       IN loadOutcome(enterIteration(reg, LoadList, loading.i + 1, setupLog),
                      loading.i + 1)
    /\ UNCHANGED <<overlapping, registerResult, loaderVars, hookVars>>

\* registry.clear(); a load() in flight keeps iterating the array that
\* this.plugins held
Clear ==
    /\ CanCall
    /\ registry' = EmptyRegistry
    /\ loading' = IF loading.active /\ ~loading.detached
                  THEN [loading EXCEPT !.detached = TRUE, !.list = registry.plugins]
                  ELSE loading
    /\ opLog' = Append(opLog, RegEvent("clear", "", "done"))
    /\ UNCHANGED <<overlapping, setupLog, registerResult, loaderVars, hookVars>>

\* registry.load() is called while another call of load() is suspended in
\* a setup: the same function body, with its own loop
LoadOverlapping ==
    /\ CanCall
    /\ loading.active
    /\ ~overlapping.active
    /\ IF AlreadyLoaded(registry)
       THEN /\ opLog' = Append(opLog, RegEvent("overlapSkip", "", "done"))
            /\ UNCHANGED <<registry, overlapping, setupLog>>
       ELSE LET r == enterIteration(registry, registry.plugins, 1, setupLog)
            IN /\ registry' = r.registry
               /\ setupLog' = r.setupLog
               /\ IF r.status = "awaiting"
                  THEN /\ overlapping' = [NotLoading EXCEPT !.active = TRUE, !.i = 1]
                       /\ opLog' = Append(opLog, RegEvent("overlapCall", "", "pending"))
                  ELSE /\ overlapping' = NotLoading
                       /\ opLog' = opLog \o <<RegEvent("overlapCall", "", "pending"),
                                              RegEvent(IF r.status = "done" THEN "overlapDone"
                                                       ELSE "overlapFailed", "", r.status)>>
    /\ UNCHANGED <<loading, registerResult, loaderVars, hookVars>>

\* the setup the second call awaits settles and its loop goes on
ResumeOverlapping ==
    /\ overlapping.active
    /\ LET p == registry.plugins[overlapping.i]
           reg == IF p.setup = "async" THEN mergeExtensions(registry, ExtensionOf(p))
                  ELSE registry
           r == enterIteration(reg, registry.plugins, overlapping.i + 1, setupLog)
       IN /\ registry' = r.registry
          /\ setupLog' = r.setupLog
          /\ IF r.status = "awaiting"
             THEN /\ overlapping' = [overlapping EXCEPT !.i = overlapping.i + 1]
                  /\ opLog' = opLog
             ELSE /\ overlapping' = NotLoading
                  /\ opLog' = Append(opLog, RegEvent(IF r.status = "done" THEN "overlapDone"
                                                      ELSE "overlapFailed", "", r.status))
    /\ UNCHANGED <<loading, registerResult, loaderVars, hookVars>>

\* registrations followed by calls of load() that may overlap
NextOverlap ==
    \/ Register
    \/ Load
    \/ ResumeLoad
    \/ LoadOverlapping
    \/ ResumeOverlapping

\* the operations of a host on one registry
NextRegistry ==
    \/ Register
    \/ RegisterAll
    \/ Load
    \/ ResumeLoad
    \/ Clear


InitRegistry ==
    /\ registry = EmptyRegistry
    /\ loading = NotLoading
    /\ setupLog = <<>>
    /\ registerResult = "none"
    /\ opLog = <<>>
    /\ overlapping = NotLoading

InitLoader ==
    /\ phase = "Unvalidated"
    /\ sorted = <<>>
    /\ loadError = NoLoadError
    /\ context = EmptyContext
    /\ propertyOwners = <<>>
    /\ warnings = <<>>
    /\ applyError = NoApplyError
    /\ pi = 0
    /\ ei = 0
    /\ invoked = <<>>
    /\ deferred = <<>>
    /\ batchLoad = NoBatchLoad

\* a batch without lifecycle hooks, and a registry that is not used
InitRest ==
    /\ InitLoader
    /\ lifecycleHooks = <<>>
    /\ InitDispatcher
    /\ InitRegistry

\* priorities a definition can declare: none, or an integer of either sign
Priorities == {<<>>} \cup {<<k>> : k \in (0 - 1)..MaxPriority}

\* the dependencies of plugin i, read off a list of edges <<i, name>>
RECURSIVE DepsFromEdges(_, _)
DepsFromEdges(edges, i) ==
    IF edges = <<>> THEN <<>>
    ELSE IF Head(edges)[1] = i
         THEN <<Head(edges)[2]>> \o DepsFromEdges(Tail(edges), i)
         ELSE DepsFromEdges(Tail(edges), i)

\* batches for the ordering: priorities and dependencies vary; every plugin
\* declares PRIORITY and registers one extension that sets global.shared
OrderBatch(n, prio, edges) ==
    [i \in 1..n |->
        [name |-> PluginNames[i],
         priority |-> prio[i],
         dependencies |-> DepsFromEdges(edges, i),
         conflictResolution |-> PRIORITY,
         extensions |-> <<WriteCb("global", "shared", Num(i))>>]]

Init ==
    /\ \E n \in 1..MaxPlugins :
         \E prio \in [1..n -> Priorities] :
           \E edges \in SeqsUpTo((1..n) \X (BatchNames(n) \cup {NotLoadedName}), MaxDeps) :
              plugins = OrderBatch(n, prio, edges)
    /\ InitRest

Spec == Init /\ [][Next]_vars

\* a new registry; the loader and the dispatcher are not used
InitRegistryOnly ==
    /\ plugins = <<>>
    /\ lifecycleHooks = <<>>
    /\ InitLoader
    /\ InitDispatcher
    /\ InitRegistry

SpecRegistry == InitRegistryOnly /\ [][NextRegistry]_vars
SpecOverlap == InitRegistryOnly /\ [][NextOverlap]_vars

\* batches for the apply pass: no priorities and no dependencies, so the
\* resolved order is the order of the batch; strategies and extensions vary.
\* A callback sets one property to a number or to a function, or throws;
\* the value written carries the number of the callback in the batch.
WriteTargets == {<<"global", "x">>, <<"global", "y">>, <<"host", "x">>}
ValueKinds == {"num", "fn"}
CallbackShapes ==
    {[kind |-> "write", target |-> w, t |-> k] : w \in WriteTargets, k \in ValueKinds}
        \cup {[kind |-> "throw", target |-> <<"", "">>, t |-> ""]}

RECURSIVE SumTo(_, _)
\* counts[1] + ... + counts[i]
SumTo(counts, i) == IF i = 0 THEN 0 ELSE counts[i] + SumTo(counts, i - 1)

CallbackOfShape(sh, f) ==
    IF sh.kind = "throw" THEN ThrowCb
    ELSE WriteCb(sh.target[1], sh.target[2], IF sh.t = "fn" THEN Fn(f) ELSE Num(f))

ApplyBatch(n, counts, shapes, strat) ==
    [i \in 1..n |->
        [name |-> PluginNames[i],
         priority |-> <<>>,
         dependencies |-> <<>>,
         conflictResolution |-> strat[i],
         extensions |-> [j \in 1..counts[i] |->
                            CallbackOfShape(shapes[SumTo(counts, i - 1) + j],
                                            SumTo(counts, i - 1) + j)]]]

InitApply ==
    /\ \E n \in 1..MaxPlugins :
         \E counts \in [1..n -> 1..MaxExt] :
           /\ SumTo(counts, n) <= MaxCallbacks
           /\ \E shapes \in [1..SumTo(counts, n) -> CallbackShapes] :
                \E strat \in [1..n -> ConflictResolutionStrategy \cup {NoStrategy}] :
                   plugins = ApplyBatch(n, counts, shapes, strat)
    /\ InitRest

SpecApply == InitApply /\ [][Next]_vars

\* batches for the merge: the first plugin sets global.x to a value, the
\* second, declaring MERGE, sets it to another one. Values are numbers,
\* functions, arrays of them and objects over two keys holding any of these
\* or an object of one key; the second plugin's atoms are marked by +10.
MergeAtoms(d) == {Num(1 + d), Fn(2 + d)}
MergeArrays(d) == {Arr(q) : q \in SeqsUpTo(MergeAtoms(d), MaxArrLen)}
MergeInner(d) ==
    MergeAtoms(d) \cup MergeArrays(d) \cup {Obj([a |-> v]) : v \in MergeAtoms(d)}
MergeObjects(d) ==
    {Obj(<<>>)}
        \cup {Obj([a |-> v]) : v \in MergeInner(d)}
        \cup {Obj([b |-> v]) : v \in MergeInner(d)}
        \cup {Obj([a |-> v, b |-> w]) : v \in MergeInner(d), w \in MergeInner(d)}
MergeValues(d) == MergeAtoms(d) \cup MergeArrays(d) \cup MergeObjects(d)

MergeBatch(old, new) ==
    <<[name |-> "p1", priority |-> <<>>, dependencies |-> <<>>,
       conflictResolution |-> NoStrategy,
       extensions |-> <<WriteCb("global", "x", old)>>],
      [name |-> "p2", priority |-> <<>>, dependencies |-> <<>>,
       conflictResolution |-> MERGE,
       extensions |-> <<WriteCb("global", "x", new)>>]>>

InitMerge ==
    /\ \E old \in MergeValues(0) : \E new \in MergeValues(10) :
          plugins = MergeBatch(old, new)
    /\ InitRest

SpecMerge == InitMerge /\ [][Next]_vars

\* identifiers for loadPlugins: each loads, giving a plugin with a priority
\* and no dependency or a dependency on the first identifier's plugin, or
\* fails in one of three ways
IdentifierDeps == {<<>>, <<PluginNames[1]>>}
IdentifierPriorities == {<<>>, <<MaxPriority + 1>>}
IdentifierBatch(n, outcome, prio, deps) ==
    [i \in 1..n |->
        [identifier |-> PluginNames[i],
         outcome |-> outcome[i],
         plugin |-> [name |-> PluginNames[i],
                     priority |-> prio[i],
                     dependencies |-> deps[i],
                     conflictResolution |-> NoStrategy,
                     extensions |-> <<>>]]]

InitLoad ==
    /\ \E n \in 1..MaxPlugins :
         \E outcome \in [1..n -> LoadOutcomes] :
           \E prio \in [1..n -> IdentifierPriorities] :
             \E deps \in [1..n -> IdentifierDeps] :
                batchLoad = [NoBatchLoad EXCEPT
                                !.identifiers = IdentifierBatch(n, outcome, prio, deps),
                                !.next = 1]
    /\ plugins = <<>>
    /\ phase = "Loading"
    /\ sorted = <<>>
    /\ loadError = NoLoadError
    /\ context = EmptyContext
    /\ propertyOwners = <<>>
    /\ warnings = <<>>
    /\ applyError = NoApplyError
    /\ pi = 0
    /\ ei = 0
    /\ invoked = <<>>
    /\ deferred = <<>>
    /\ lifecycleHooks = <<>>
    /\ InitDispatcher
    /\ InitRegistry

SpecLoad == InitLoad /\ [][NextLoad]_vars

\* batches applied to a context that is not empty when the pass starts: the
\* host, or an earlier pass, has left a number or a function in global.x
HostValues == {Num(0), Fn(0)}
HostTarget == <<"global", "x">>
HostContext(v) ==
    [EmptyContext EXCEPT ![HostTarget[1]] =
        [defined |-> TRUE, props |-> <<[key |-> HostTarget[2], val |-> v]>>]]

InitPrepopulated ==
    /\ \E n \in 1..MaxPlugins :
         \E counts \in [1..n -> 1..MaxExt] :
           /\ SumTo(counts, n) <= MaxCallbacks
           /\ \E shapes \in [1..SumTo(counts, n) -> CallbackShapes] :
                \E strat \in [1..n -> ConflictResolutionStrategy \cup {NoStrategy}] :
                   plugins = ApplyBatch(n, counts, shapes, strat)
    /\ \E v \in HostValues : context = HostContext(v)
    /\ phase = "Unvalidated"
    /\ sorted = <<>>
    /\ loadError = NoLoadError
    /\ propertyOwners = <<>>
    /\ warnings = <<>>
    /\ applyError = NoApplyError
    /\ pi = 0
    /\ ei = 0
    /\ invoked = <<>>
    /\ deferred = <<>>
    /\ batchLoad = NoBatchLoad
    /\ lifecycleHooks = <<>>
    /\ InitDispatcher
    /\ InitRegistry

SpecPrepopulated == InitPrepopulated /\ [][Next]_vars

\* batches for a merge followed by further callbacks: p1 stores a number or
\* an array in global.x, the first callback of p2, declaring MERGE, stores
\* another one there, and one more callback, of p2 or of a third MERGE
\* plugin, writes another key
RemergeValues(d) == {Num(1 + d)} \cup {Arr(q) : q \in SeqsUpTo({Num(1 + d)}, MaxArrLen)}
OtherTargets == {<<"global", "y">>, <<"host", "x">>}

RemergePlugin(name, strategy, exts) ==
    [name |-> name, priority |-> <<>>, dependencies |-> <<>>,
     conflictResolution |-> strategy, extensions |-> exts]

RemergeBatch(old, new, other, third) ==
    IF third
    THEN <<RemergePlugin("p1", NoStrategy, <<WriteCb("global", "x", old)>>),
           RemergePlugin("p2", MERGE, <<WriteCb("global", "x", new)>>),
           RemergePlugin("p3", MERGE, <<WriteCb(other[1], other[2], Num(3))>>)>>
    ELSE <<RemergePlugin("p1", NoStrategy, <<WriteCb("global", "x", old)>>),
           RemergePlugin("p2", MERGE, <<WriteCb("global", "x", new),
                                        WriteCb(other[1], other[2], Num(3))>>)>>

InitRemerge ==
    /\ \E old \in RemergeValues(0) : \E new \in RemergeValues(10) :
         \E other \in OtherTargets : \E third \in BOOLEAN :
            plugins = RemergeBatch(old, new, other, third)
    /\ InitRest

SpecRemerge == InitRemerge /\ [][Next]_vars

\* batches for the walk of the apply pass: priorities vary, so the list
\* differs from the batch; a plugin registers 0..MaxExt callbacks, each of
\* which sets global.shared at once, sets it after suspending, or throws;
\* every plugin declares PRIORITY
PassShapes == {"write", "defer", "throw"}

PassCallback(shape, f) ==
    IF shape = "throw" THEN ThrowCb
    ELSE IF shape = "defer" THEN DeferCb("global", "shared", Num(f))
    ELSE WriteCb("global", "shared", Num(f))

PassBatch(n, prio, counts, shapes) ==
    [i \in 1..n |->
        [name |-> PluginNames[i],
         priority |-> prio[i],
         dependencies |-> <<>>,
         conflictResolution |-> PRIORITY,
         extensions |-> [j \in 1..counts[i] |->
                            PassCallback(shapes[SumTo(counts, i - 1) + j],
                                         SumTo(counts, i - 1) + j)]]]

InitPass ==
    /\ \E n \in 1..MaxPlugins :
         \E prio \in [1..n -> Priorities] :
           \E counts \in [1..n -> 0..MaxExt] :
             /\ SumTo(counts, n) <= MaxCallbacks
             /\ \E shapes \in [1..SumTo(counts, n) -> PassShapes] :
                   plugins = PassBatch(n, prio, counts, shapes)
    /\ InitRest

SpecPass == InitPass /\ [][NextAsync]_vars

\* batches for the lifecycle passes: no extensions and no dependencies; the
\* priority is absent or above the default, so the list can differ from the
\* batch; a plugin registers 0..MaxHooks hooks, the same for each pass
HookPriorities == {<<>>, <<MaxPriority + 1>>}

HookBatch(n, prio) ==
    [i \in 1..n |->
        [name |-> PluginNames[i],
         priority |-> prio[i],
         dependencies |-> <<>>,
         conflictResolution |-> NoStrategy,
         extensions |-> <<>>]]

HooksOfBatch(n, counts, kinds) ==
    [name \in BatchNames(n) |->
        LET i == CHOOSE k \in 1..n : PluginNames[k] = name
            hooks == [j \in 1..counts[i] |-> kinds[SumTo(counts, i - 1) + j]]
        IN [beforeRun |-> hooks, afterRun |-> hooks, onError |-> hooks]]

InitHooks ==
    /\ \E n \in 1..MaxPlugins :
         \E prio \in [1..n -> HookPriorities] :
           \E counts \in [1..n -> 0..MaxHooks] :
             /\ SumTo(counts, n) <= MaxCallbacks
             /\ \E kinds \in [1..SumTo(counts, n) -> HookKinds] :
                   /\ plugins = HookBatch(n, prio)
                   /\ lifecycleHooks = HooksOfBatch(n, counts, kinds)
    /\ InitLoader
    /\ InitDispatcher
    /\ InitRegistry

SpecHooks == InitHooks /\ [][NextHooks]_vars

\* ------------------------------------------------------------------------
\* The dependency graph and the priority ranking of a batch, as the
\* documentation of PluginDefinition describes them
\* ------------------------------------------------------------------------
LoadedNames == {plugins[i].name : i \in DOMAIN plugins}
DeclaredDeps(name) == Range(PluginMapGet(plugins, name).dependencies)

RECURSIVE DepsWithin(_, _)
\* names reached from the set S of loaded names in at most k dependency steps
DepsWithin(S, k) ==
    IF k = 0 THEN S
    ELSE LET T == DepsWithin(S, k - 1)
         IN T \cup UNION {DeclaredDeps(a) \cap LoadedNames : a \in T}

\* the plugins name depends on, directly or transitively
TransitiveDeps(name) ==
    DepsWithin(DeclaredDeps(name) \cap LoadedNames, Len(plugins))

HasCycle == \E a \in LoadedNames : a \in TransitiveDeps(a)
HasMissingDependency == \E a \in LoadedNames : DeclaredDeps(a) \ LoadedNames # {}
NoDependencies == \A a \in LoadedNames : DeclaredDeps(a) = {}

\* priority "Default: 0", and the rank "higher = executed first" with ties
\* in the order of the batch
DeclaredPriority(name) ==
    LET pr == PluginMapGet(plugins, name).priority
    IN IF Len(pr) = 0 THEN 0 ELSE pr[1]
RanksBefore(a, b) ==
    \/ DeclaredPriority(a) > DeclaredPriority(b)
    \/ /\ DeclaredPriority(a) = DeclaredPriority(b)
       /\ IndexOfName(plugins, a) < IndexOfName(plugins, b)

OrderSucceeded == phase \notin {"Unvalidated", "OrderFailed"}
InOrder(name) == \E i \in DOMAIN sorted : sorted[i] = name
Pos(name) == CHOOSE i \in DOMAIN sorted : sorted[i] = name
Before(a, b) == InOrder(a) /\ InOrder(b) /\ Pos(a) < Pos(b)

\* ------------------------------------------------------------------------
\* Claims about the ordering
\* ------------------------------------------------------------------------
\* C1: whenever ordering succeeds, every plugin appears in the resolved
\* order after every plugin it depends on, directly or transitively,
\* whatever the priorities are.
C1_DependenciesFirst ==
    OrderSucceeded =>
        \A a \in LoadedNames : \A d \in TransitiveDeps(a) : Before(d, a)

\* a dependent of higher priority than its dependency: the order is [B, A]
C1_Witness ==
    /\ OrderSucceeded
    /\ Len(plugins) = 2
    /\ \E a, b \in LoadedNames :
         /\ b \in DeclaredDeps(a)
         /\ DeclaredPriority(a) > DeclaredPriority(b)
         /\ IndexOfName(plugins, a) < IndexOfName(plugins, b)
         /\ sorted = <<b, a>>

\* C2 as stated: two plugins neither of which depends on the other appear
\* in descending priority, ties in batch order.
C2_UnrelatedByPriority ==
    OrderSucceeded =>
        \A a, b \in LoadedNames :
            (/\ a # b
             /\ a \notin TransitiveDeps(b)
             /\ b \notin TransitiveDeps(a)
             /\ RanksBefore(a, b)) => Before(a, b)

\* C2 amended: the higher ranked of two plugins appears first unless the
\* lower ranked one is a dependency, direct or transitive, of the higher
\* ranked one or of a plugin that ranks above the higher ranked one.
C2_PriorityUnlessPulled ==
    OrderSucceeded =>
        \A a, b \in LoadedNames :
            (/\ RanksBefore(a, b)
             /\ \A c \in LoadedNames :
                  (c = a \/ RanksBefore(c, a)) => b \notin TransitiveDeps(c))
            => Before(a, b)

\* three plugins, one of them pulled ahead as a dependency, and a pair that
\* keeps its priority order behind it
C2_Witness ==
    /\ OrderSucceeded
    /\ Len(plugins) = 3
    /\ \E a, b, c \in LoadedNames :
         /\ RanksBefore(a, b) /\ RanksBefore(b, c)
         /\ c \in DeclaredDeps(a)
         /\ sorted = <<c, a, b>>

\* C3: with no dependency declared in the batch, the resolved order is the
\* stable descending-priority sort of the batch, a missing priority
\* counting as 0 and negative priorities allowed.
C3_StablePrioritySort ==
    (phase # "Unvalidated" /\ NoDependencies) =>
        /\ phase # "OrderFailed"
        /\ Len(sorted) = Len(plugins)
        /\ Range(sorted) = LoadedNames
        /\ \A i, j \in DOMAIN sorted : i < j => RanksBefore(sorted[i], sorted[j])

\* a plugin without priority sorted between a later 0 and an earlier -1
C3_Witness ==
    /\ phase = "Ordered"
    /\ NoDependencies
    /\ Len(plugins) = 3
    /\ plugins[1].priority = <<0 - 1>>
    /\ plugins[2].priority = <<>>
    /\ plugins[3].priority = <<0>>
    /\ sorted = <<"p2", "p3", "p1">>

\* C4: a batch whose dependency graph has a cycle fails with a
\* circular-dependency error, no list is produced and no extension
\* callback of the batch is ever applied.
C4_CycleFailsBatch ==
    (phase # "Unvalidated" /\ HasCycle) =>
        /\ phase = "OrderFailed"
        /\ loadError.kind = "circular"
        /\ sorted = <<>>
        /\ invoked = <<>>
        /\ context = EmptyContext

\* a cycle between the second and third plugin; the first, of the highest
\* priority, is not on it
C4_Witness ==
    /\ phase = "OrderFailed"
    /\ loadError.kind = "circular"
    /\ Len(plugins) = 3
    /\ DeclaredDeps("p1") = {}
    /\ DeclaredDeps("p2") = {"p3"}
    /\ DeclaredDeps("p3") = {"p2"}
    /\ RanksBefore("p1", "p2") /\ RanksBefore("p1", "p3")

\* C5 as stated: a dependency that is not in the batch always fails the
\* ordering with an error naming the dependent and the missing name.
C5_MissingAlwaysNamed ==
    (phase # "Unvalidated" /\ HasMissingDependency) =>
        /\ phase = "OrderFailed"
        /\ sorted = <<>>
        /\ loadError.kind = "missing"
        /\ loadError.plugin \in LoadedNames
        /\ loadError.dep \in DeclaredDeps(loadError.plugin) \ LoadedNames

\* C5 amended: a dependency that is not in the batch always fails the
\* ordering and no list is returned; when the batch has no dependency
\* cycle the error names a dependent and the missing name it declares.
C5_MissingFailsBatch ==
    (phase # "Unvalidated" /\ HasMissingDependency) =>
        /\ phase = "OrderFailed"
        /\ sorted = <<>>
        /\ invoked = <<>>
        /\ loadError.kind \in {"missing", "circular"}
        /\ ~HasCycle =>
             /\ loadError.kind = "missing"
             /\ loadError.plugin \in LoadedNames
             /\ loadError.dep \in DeclaredDeps(loadError.plugin) \ LoadedNames

\* the dependent is reached only as the dependency of a higher ranked plugin
C5_Witness ==
    /\ phase = "OrderFailed"
    /\ Len(plugins) = 2
    /\ DeclaredDeps("p1") = {"p2"}
    /\ DeclaredDeps("p2") = {NotLoadedName}
    /\ RanksBefore("p1", "p2")
    /\ loadError = MissingError("p2", NotLoadedName)

\* ------------------------------------------------------------------------
\* The history of an apply pass, read off the log of invoked callbacks
\* ------------------------------------------------------------------------
InvokedPlugin(k) == invoked[k][1]
InvokedCallback(k) == PluginMapGet(plugins, invoked[k][1]).extensions[invoked[k][2]]
IsWrite(k) == InvokedCallback(k).kind = "write"
TargetOf(k) == <<InvokedCallback(k).ns, InvokedCallback(k).key>>
DeclaredStrategy(name) == PluginMapGet(plugins, name).conflictResolution

\* the invocations before the k-th that wrote the property the k-th writes
EarlierWrites(k) ==
    {m \in 1..(k - 1) : IsWrite(m) /\ TargetOf(m) = TargetOf(k)}
\* the plugins other than the k-th writer that wrote that property before
EarlierOtherWriters(k) ==
    {InvokedPlugin(m) : m \in {e \in EarlierWrites(k) : InvokedPlugin(e) # InvokedPlugin(k)}}
\* the k-th invocation writes a property last written by another plugin
CrossPluginWrite(k) ==
    /\ IsWrite(k)
    /\ EarlierWrites(k) # {}
    /\ InvokedPlugin(CHOOSE m \in EarlierWrites(k) : \A e \in EarlierWrites(k) : e <= m)
           # InvokedPlugin(k)

ValueAt(target) == GetProp(context[target[1]].props, target[2])
OwnerIs(target, name) == target \in DOMAIN propertyOwners /\ propertyOwners[target] = name
WarningsOf(name, target) ==
    {w \in DOMAIN warnings : warnings[w].writer = name /\ warnings[w].path = target}

\* ------------------------------------------------------------------------
\* Claims about conflict resolution
\* ------------------------------------------------------------------------
\* C6: when a plugin whose strategy is ERROR writes a key that another
\* plugin has written, applyPluginExtensions throws an error naming the
\* writer, the earlier writer and the path 'namespace.key', and no further
\* callback of the writer or of a later plugin is invoked.
C6_ErrorStrategyThrows ==
    \A k \in DOMAIN invoked :
        (CrossPluginWrite(k) /\ DeclaredStrategy(InvokedPlugin(k)) = ERROR) =>
            /\ k = Len(invoked)
            /\ phase = "ApplyFailed"
            /\ applyError.kind = "conflict"
            /\ applyError.plugin = InvokedPlugin(k)
            /\ applyError.writer = InvokedPlugin(k)
            /\ applyError.path = TargetOf(k)
            /\ applyError.owner \in EarlierOtherWriters(k)

\* C7: when a plugin whose strategy is WARN_OVERRIDE (declared or by
\* default) writes a key that another plugin has written, the pass does not
\* fail, the key holds the new value, the writer owns the key, and exactly
\* one warning naming the writer, the earlier writer and the path is emitted.
C7_WarnOverrideWarnsOnce ==
    \A k \in DOMAIN invoked :
        (/\ CrossPluginWrite(k)
         /\ DeclaredStrategy(InvokedPlugin(k)) \in {WARN_OVERRIDE, NoStrategy}) =>
            /\ ~(phase = "ApplyFailed" /\ k = Len(invoked))
            /\ Cardinality(WarningsOf(InvokedPlugin(k), TargetOf(k))) = 1
            /\ \A w \in WarningsOf(InvokedPlugin(k), TargetOf(k)) :
                  warnings[w].owner \in EarlierOtherWriters(k)
            /\ k = Len(invoked) =>
                  /\ ValueAt(TargetOf(k)) = InvokedCallback(k).val
                  /\ OwnerIs(TargetOf(k), InvokedPlugin(k))

RECURSIVE ReferenceMerge(_, _)
\* the merge of the MERGE strategy as it is documented: sequences are
\* concatenated; mappings are merged key by key, a key of both sides by the
\* same rule when both are mappings or both are sequences, otherwise the
\* new side wins
ReferenceMerge(old, new) ==
    IF old.t = "arr" /\ new.t = "arr" THEN Arr(old.items \o new.items)
    ELSE IF old.t = "obj" /\ new.t = "obj"
    THEN Obj([k \in DOMAIN old.fields \cup DOMAIN new.fields |->
                 IF k \notin DOMAIN new.fields THEN old.fields[k]
                 ELSE IF k \notin DOMAIN old.fields THEN new.fields[k]
                 ELSE IF old.fields[k].t = new.fields[k].t /\ new.fields[k].t \in {"arr", "obj"}
                      THEN ReferenceMerge(old.fields[k], new.fields[k])
                      ELSE new.fields[k]])
    ELSE new

\* C8: after a collision resolved under MERGE the key holds the reference
\* merge of the value it held before the callback and the value the
\* callback wrote, for two sequences and for two mappings.
C8_MergeIsReferenceMerge ==
    \A k \in DOMAIN invoked :
        (/\ k = 2 /\ Len(invoked) = 2
         /\ CrossPluginWrite(k)
         /\ DeclaredStrategy(InvokedPlugin(k)) = MERGE
         /\ InvokedCallback(k).val.t \in {"arr", "obj"}
         /\ InvokedCallback(1).val.t = InvokedCallback(k).val.t) =>
            ValueAt(TargetOf(k)) =
                ReferenceMerge(InvokedCallback(1).val, InvokedCallback(k).val)

\* C9: when the plugins that write a key all declare PRIORITY, the value
\* left in the context after ordering and applying is the one written by
\* the plugin of the highest priority.
C9_HighestPriorityWins ==
    (phase = "ExtensionsApplied" /\ NoDependencies) =>
        \A k \in DOMAIN invoked :
            ValueAt(<<"global", "shared">>) = InvokedCallback(k).val =>
                \A b \in LoadedNames :
                    DeclaredPriority(InvokedPlugin(k)) >= DeclaredPriority(b)

LastWriter(k) ==
    InvokedPlugin(CHOOSE m \in EarlierWrites(k) : \A e \in EarlierWrites(k) : e <= m)

\* C11: on a cross-plugin collision the strategy applied is the one the
\* writing plugin declares, never the one of the plugin that wrote the key
\* before: an ERROR owner overwritten by a WARN_OVERRIDE writer gives an
\* accepted write with one warning, a WARN_OVERRIDE owner overwritten by an
\* ERROR writer fails the apply pass with an error naming the writer.
C11_WriterStrategyApplies ==
    \A k \in DOMAIN invoked :
        (CrossPluginWrite(k) /\ k = Len(invoked)) =>
            /\ (/\ DeclaredStrategy(LastWriter(k)) = ERROR
                /\ DeclaredStrategy(InvokedPlugin(k)) = WARN_OVERRIDE) =>
                   /\ phase # "ApplyFailed"
                   /\ ValueAt(TargetOf(k)) = InvokedCallback(k).val
                   /\ Cardinality(WarningsOf(InvokedPlugin(k), TargetOf(k))) = 1
            /\ (/\ DeclaredStrategy(LastWriter(k)) = WARN_OVERRIDE
                /\ DeclaredStrategy(InvokedPlugin(k)) = ERROR) =>
                   /\ phase = "ApplyFailed"
                   /\ applyError.kind = "conflict"
                   /\ applyError.plugin = InvokedPlugin(k)

\* the invocations after which no later one wrote the same property
LastWrites == {m \in DOMAIN invoked :
                  IsWrite(m) /\ \A e \in DOMAIN invoked : m \in EarlierWrites(e) => e = m}
\* every callback invoked so far wrote a property no other plugin wrote
NoSharedKey ==
    \A m \in DOMAIN invoked : IsWrite(m) /\ EarlierOtherWriters(m) = {}

\* C12: only the keys a callback added or changed are submitted to conflict
\* resolution: while the plugins write keys no other plugin wrote, whatever
\* their strategies, no error is raised, no warning is emitted, every key
\* holds the value last written to it and is owned by the plugin that
\* wrote it.
C12_OnlyTouchedKeysResolved ==
    NoSharedKey =>
        /\ phase # "ApplyFailed"
        /\ warnings = <<>>
        /\ \A m \in LastWrites :
              /\ ValueAt(TargetOf(m)) = InvokedCallback(m).val
              /\ OwnerIs(TargetOf(m), InvokedPlugin(m))

\* the last invocation before the k-th that wrote the property the k-th writes
LastWriteBefore(k) == CHOOSE m \in EarlierWrites(k) : \A e \in EarlierWrites(k) : e <= m

\* C13: collision detection does not depend on the kind of value stored:
\* when a plugin overwrites a key in which another plugin stored a function,
\* the collision is handled by the writer's strategy, a warning under
\* WARN_OVERRIDE and a failed pass under ERROR.
C13_FunctionCollisionDetected ==
    \A k \in DOMAIN invoked :
        (/\ k = Len(invoked)
         /\ CrossPluginWrite(k)
         /\ InvokedCallback(LastWriteBefore(k)).val.t = "fn") =>
            /\ DeclaredStrategy(InvokedPlugin(k)) \in {WARN_OVERRIDE, NoStrategy} =>
                  WarningsOf(InvokedPlugin(k), TargetOf(k)) # {}
            /\ DeclaredStrategy(InvokedPlugin(k)) = ERROR =>
                  /\ phase = "ApplyFailed"
                  /\ applyError.path = TargetOf(k)

\* ------------------------------------------------------------------------
\* The callback about to be applied, and what the ownership map records
\* ------------------------------------------------------------------------
CurrentPlugin == SortedPlugin(pi)
CurrentCallback == CurrentPlugin.extensions[ei]
CurrentTarget == <<CurrentCallback.ns, CurrentCallback.key>>
\* propertyOwners.get(ownerKey) is undefined, or is the plugin called name
UnownedOrOwnedBy(target, name) ==
    target \notin DOMAIN propertyOwners \/ propertyOwners[target] = name

\* C14: a write to a key that has no recorded owner, or whose recorded owner
\* is the writing plugin itself, is accepted for every strategy: the pass
\* does not fail, no warning about the key is emitted, the key holds the
\* value written and its recorded owner is the writer afterwards.
C14_OwnWriteAccepted ==
    [][(/\ phase = "Applying"
        /\ CurrentCallback.kind = "write"
        /\ UnownedOrOwnedBy(CurrentTarget, CurrentPlugin.name)) =>
           /\ phase' # "ApplyFailed"
           /\ \A w \in DOMAIN warnings' :
                 warnings'[w].path = CurrentTarget => w \in DOMAIN warnings
           /\ GetProp(context'[CurrentTarget[1]].props, CurrentTarget[2])
                 = CurrentCallback.val
           /\ CurrentTarget \in DOMAIN propertyOwners'
           /\ propertyOwners'[CurrentTarget] = CurrentPlugin.name]_vars

\* C15: after a collision has been resolved under MERGE the recorded owner
\* of the key is the writing plugin.
C15_MergeTransfersOwnership ==
    \A k \in DOMAIN invoked :
        (/\ k = Len(invoked)
         /\ CrossPluginWrite(k)
         /\ DeclaredStrategy(InvokedPlugin(k)) = MERGE
         /\ phase # "ApplyFailed") =>
            OwnerIs(TargetOf(k), InvokedPlugin(k))

\* one value is a mapping or a sequence and the other is of another kind
StructurallyIncompatible(old, new) ==
    old.t # new.t /\ (old.t \in {"arr", "obj"} \/ new.t \in {"arr", "obj"})

\* C16: under MERGE, when the old and the new value are not structurally
\* compatible, the resolution behaves as WARN_OVERRIDE: the pass does not
\* fail, the key holds the new value and one warning naming the writer, the
\* previous owner and the path is emitted.
C16_IncompatibleMergeWarns ==
    \A k \in DOMAIN invoked :
        (/\ k = Len(invoked)
         /\ CrossPluginWrite(k)
         /\ DeclaredStrategy(InvokedPlugin(k)) = MERGE
         /\ StructurallyIncompatible(InvokedCallback(LastWriteBefore(k)).val,
                                     InvokedCallback(k).val)) =>
            /\ phase # "ApplyFailed"
            /\ ValueAt(TargetOf(k)) = InvokedCallback(k).val
            /\ Cardinality(WarningsOf(InvokedPlugin(k), TargetOf(k))) = 1
            /\ \A w \in WarningsOf(InvokedPlugin(k), TargetOf(k)) :
                  warnings[w].owner = LastWriter(k)

\* the plugin called name has written the property target in this pass
HasWritten(name, target) ==
    \E m \in DOMAIN invoked : IsWrite(m) /\ InvokedPlugin(m) = name /\ TargetOf(m) = target

\* C17: at every point of an apply pass that has not failed, the ownership
\* map records for each property written so far the plugin that wrote it
\* last, and no plugin is the recorded owner of a property it did not write.
C17_OwnerIsLastWriter ==
    phase \in {"Applying", "ExtensionsApplied"} =>
        /\ \A m \in LastWrites : OwnerIs(TargetOf(m), InvokedPlugin(m))
        /\ \A target \in DOMAIN propertyOwners :
              HasWritten(propertyOwners[target], target)

RECURSIVE CallbacksFrom(_, _)
\* the callbacks of the list from plugin number i, callback number j on, in
\* the order of the two loops of applyPluginExtensions
CallbacksFrom(i, j) ==
    IF i > Len(sorted) THEN <<>>
    ELSE IF j > Len(SortedPlugin(i).extensions) THEN CallbacksFrom(i + 1, 1)
    ELSE <<<<sorted[i], j>>>> \o CallbacksFrom(i, j + 1)

\* C19: in an apply pass that does not fail every extension callback of
\* every plugin of the list is invoked exactly once, plugins in the order
\* of the list and the callbacks of a plugin in their registration order;
\* while the pass runs the callbacks invoked are a prefix of that sequence.
C19_EveryCallbackOnceInOrder ==
    /\ phase = "ExtensionsApplied" => invoked = CallbacksFrom(1, 1)
    /\ phase = "Applying" =>
          /\ Len(invoked) < Len(CallbacksFrom(1, 1))
          /\ invoked = SubSeq(CallbacksFrom(1, 1), 1, Len(invoked))

\* a list that is not in batch order, with a plugin of two callbacks and a
\* plugin of none between the two others
C19_Witness ==
    /\ phase = "ExtensionsApplied"
    /\ sorted = <<"p3", "p1", "p2">>
    /\ Len(PluginMapGet(plugins, "p3").extensions) = 2
    /\ Len(PluginMapGet(plugins, "p1").extensions) = 0
    /\ Len(PluginMapGet(plugins, "p2").extensions) = 1
    /\ invoked = <<<<"p3", 1>>, <<"p3", 2>>, <<"p2", 1>>>>

\* C20: for two plugins A before B in the resolved order every effect of
\* A's callbacks happens before any effect of B's, also when a callback of
\* A suspends: no callback of B is ever invoked while a callback of A has
\* not finished.
C20_EffectsInResolvedOrder ==
    \A i \in DOMAIN deferred : \A m \in DOMAIN invoked :
        m > deferred[i].k => ~Before(deferred[i].plugin, InvokedPlugin(m))

\* ------------------------------------------------------------------------
\* The history of a lifecycle pass, read off the log of the hooks
\* ------------------------------------------------------------------------
HookKindAt(i) == lifecycleHooks[hookLog[i].plugin][hookPass][hookLog[i].idx]
\* the i-th event of the log is the end of a hook that threw or rejected
IsHookFailure(i) == hookLog[i].ev = "end" /\ ThrownBy(HookKindAt(i)) # "none"
HookFailures == {i \in DOMAIN hookLog : IsHookFailure(i)}

RECURSIVE HooksFrom(_, _)
\* the hooks of the pass from plugin number i, hook number j on, in the
\* order of the list and of registration
HooksFrom(i, j) ==
    IF i > Len(sorted) THEN <<>>
    ELSE IF j > Len(HooksOf(i)) THEN HooksFrom(i + 1, 1)
    ELSE <<<<sorted[i], j>>>> \o HooksFrom(i, j + 1)

RECURSIVE StartedIn(_)
\* the hooks started in a log, in the order they were started
StartedIn(log) ==
    IF log = <<>> THEN <<>>
    ELSE IF Head(log).ev = "start"
         THEN <<<<Head(log).plugin, Head(log).idx>>>> \o StartedIn(Tail(log))
         ELSE StartedIn(Tail(log))

\* ------------------------------------------------------------------------
\* Claims about the lifecycle passes
\* ------------------------------------------------------------------------
\* C21: executeBeforeRunHooks is fail-fast: the first beforeRun hook that
\* throws or rejects is the last hook of the pass, the call rejects with an
\* error naming the plugin of that hook, and what the earlier hooks did
\* stays as it is.
C21_BeforeRunFailFast ==
    /\ [](hookPass = "beforeRun" =>
            \A i \in HookFailures :
                /\ i = Len(hookLog)
                /\ passResult.state = "rejected"
                /\ passResult.plugin = hookLog[i].plugin)
    /\ [][hookPass = "beforeRun" => SubSeq(hookLog', 1, Len(hookLog)) = hookLog]_vars

FailSoftPass == hookPass \in {"afterRun", "onError"}
\* the call of the entry point has resolved or rejected
PassOver == passResult.state \in {"resolved", "rejected"}

\* C22: executeAfterRunHooks and executeErrorHooks are fail-soft: whatever
\* hooks throw or reject, once the pass is over every hook of every plugin
\* of the list has been invoked exactly once, in the order of the list and
\* of registration, and until then the hooks invoked are a prefix of it.
C22_FailSoftInvokesAll ==
    FailSoftPass =>
        /\ PassOver => StartedIn(hookLog) = HooksFrom(1, 1)
        /\ Len(StartedIn(hookLog)) <= Len(HooksFrom(1, 1))
        /\ StartedIn(hookLog) = SubSeq(HooksFrom(1, 1), 1, Len(StartedIn(hookLog)))

\* C23: executeAfterRunHooks and executeErrorHooks never throw or reject to
\* their caller, whatever value a hook throws or rejects with.
C23_FailSoftNeverRejects ==
    FailSoftPass => passResult.state # "rejected"

RECURSIVE FailedPlugins(_)
\* the plugins of the hooks that failed, from event i of the log on
FailedPlugins(i) ==
    IF i > Len(hookLog) THEN <<>>
    ELSE IF IsHookFailure(i) THEN <<hookLog[i].plugin>> \o FailedPlugins(i + 1)
    ELSE FailedPlugins(i + 1)

\* C24: in a fail-soft pass the failures are reported together: no warning
\* is emitted before the last hook of the last plugin has ended, and once
\* the pass is over there is exactly one warning, listing every failure
\* with its plugin, if a hook failed, and none otherwise.
C24_OneWarningAtTheEnd ==
    FailSoftPass =>
        /\ hookWarnings # <<>> =>
              /\ StartedIn(hookLog) = HooksFrom(1, 1)
              /\ running = <<>>
        /\ PassOver =>
              IF HookFailures = {} THEN hookWarnings = <<>>
              ELSE /\ Len(hookWarnings) = 1
                   /\ [k \in DOMAIN hookWarnings[1].failures |->
                          hookWarnings[1].failures[k].plugin] = FailedPlugins(1)

\* C25: in each of the three passes hooks run strictly one at a time: a
\* hook is started only when the hook started before it has ended, the end
\* of an asynchronous hook being the settling of its promise; the hooks are
\* started in the order of the list and, within a plugin, of registration,
\* so the hooks of an earlier plugin have all ended before a hook of a
\* later plugin starts.
C25_HooksStrictlySequential ==
    /\ Len(running) <= 1
    /\ \A i \in DOMAIN hookLog :
          IF hookLog[i].ev = "start"
          THEN i = 1 \/ hookLog[i - 1].ev = "end"
          ELSE /\ i > 1
               /\ hookLog[i - 1].ev = "start"
               /\ hookLog[i - 1].plugin = hookLog[i].plugin
               /\ hookLog[i - 1].idx = hookLog[i].idx
    /\ hookPass # "none" =>
          /\ Len(StartedIn(hookLog)) <= Len(HooksFrom(1, 1))
          /\ StartedIn(hookLog) = SubSeq(HooksFrom(1, 1), 1, Len(StartedIn(hookLog)))
    /\ running # <<>> =>
          /\ hookLog # <<>>
          /\ hookLog[Len(hookLog)].ev = "start"
          /\ hookLog[Len(hookLog)].plugin = running[1].plugin

\* an asynchronous hook of one plugin has settled and a hook of a later
\* plugin has been started after it
C25_Witness ==
    \E i \in DOMAIN hookLog :
        /\ i + 2 \in DOMAIN hookLog
        /\ hookLog[i].ev = "start"
        /\ IsAsyncHook(HookKindAt(i))
        /\ hookLog[i + 1].ev = "end"
        /\ hookLog[i + 2].ev = "start"
        /\ hookLog[i + 2].plugin # hookLog[i].plugin

\* C26: in an on-error pass every onError hook that is invoked receives the
\* context the caller supplied, which carries the triggering error, and the
\* dispatcher never changes or clears that error, also after an earlier
\* onError hook has failed.
C26_ErrorContextPreserved ==
    hookPass = "onError" =>
        /\ lifecycleContext = ErrorContext
        /\ \A i \in DOMAIN hookLog : hookLog[i].error = ErrorContext.error

\* an onError hook has failed and a later onError hook has been invoked
C26_Witness ==
    /\ hookPass = "onError"
    /\ \E i \in HookFailures :
          /\ i + 1 \in DOMAIN hookLog
          /\ hookLog[i + 1].ev = "start"
          /\ hookLog[i + 1].error = "scriptError"

\* ------------------------------------------------------------------------
\* Claims about the PluginRegistry
\* ------------------------------------------------------------------------
\* a call of load() has resolved and since then neither register,
\* registerAll nor clear was called
LoadedAndUntouched ==
    \E i \in DOMAIN opLog :
        /\ opLog[i].op = "loadDone"
        /\ \A j \in (i + 1)..Len(opLog) : opLog[j].op = "loadSkip"
\* this step is a call of load()
LoadIsCalled ==
    /\ Len(opLog') > Len(opLog)
    /\ opLog'[Len(opLog) + 1].op \in {"loadCall", "loadSkip"}

\* C27: load() called again after a load() that completed, with no register
\* and no clear in between, does nothing: it returns at once, no setup is
\* invoked and the registry, its extensions included, is as before.
C27_SecondLoadDoesNothing ==
    [][(LoadedAndUntouched /\ LoadIsCalled) =>
          /\ opLog'[Len(opLog) + 1].op = "loadSkip"
          /\ setupLog' = setupLog
          /\ registry' = registry
          /\ loading' = loading]_vars

\* load() was called a second time on a loaded registry that holds plugins
\* and extensions
C27_Witness ==
    /\ Len(opLog) >= 2
    /\ opLog[Len(opLog)].op = "loadSkip"
    /\ opLog[Len(opLog) - 1].op = "loadDone"
    /\ setupLog # <<>>
    /\ \E c \in ContextKeySet : registry.extensions[c] # {}

\* clear() was never called, no load() failed, and register and registerAll
\* were called only while no load() was in flight
NonOverlappingNoClear ==
    \A i \in DOMAIN opLog :
        /\ opLog[i].op \notin {"clear", "loadFailed"}
        /\ opLog[i].op \in {"register", "registerAll"} =>
              (i = 1 \/ opLog[i - 1].op # "loadCall")

\* C28: for non-overlapping register, registerAll and load calls with no
\* clear in between, the setup of every registered plugin is invoked at
\* most once, also when a plugin is registered after a load.
C28_SetupAtMostOnce ==
    NonOverlappingNoClear =>
        \A i, j \in DOMAIN setupLog : setupLog[i] = setupLog[j] => i = j

\* this step is a call of register with an id that is already registered
DuplicateIsRegistered ==
    /\ Len(opLog') = Len(opLog) + 1
    /\ opLog'[Len(opLog')].op = "register"
    /\ IsRegistered(registry, opLog'[Len(opLog')].id)

\* C29: register of a plugin whose id is already registered throws the
\* 'already registered' error and leaves the list of plugins, the
\* extensions and the loaded flag as they were.
C29_DuplicateRegisterRejected ==
    [][DuplicateIsRegistered =>
          /\ registerResult' = "alreadyRegistered"
          /\ opLog'[Len(opLog')].result = "alreadyRegistered"
          /\ registry' = registry]_vars

\* a duplicate was rejected on a loaded registry that holds extensions
C29_Witness ==
    /\ opLog # <<>>
    /\ opLog[Len(opLog)].op = "register"
    /\ opLog[Len(opLog)].result = "alreadyRegistered"
    /\ registerResult = "alreadyRegistered"
    /\ registry.loaded
    /\ \E c \in ContextKeySet : registry.extensions[c] # {}

\* clear() has returned and no plugin was registered since
ClearedAndNotRegistered ==
    \E i \in DOMAIN opLog :
        /\ opLog[i].op = "clear"
        /\ \A j \in (i + 1)..Len(opLog) : opLog[j].op \notin {"register", "registerAll"}

\* C30: after clear() has returned the registry lists no plugins and
\* exposes no extensions in any context until a plugin is registered
\* again, in every interleaving of clear() with the other operations,
\* a load() suspended in an asynchronous setup included.
C30_ClearedStaysEmpty ==
    ClearedAndNotRegistered =>
        /\ registry.plugins = <<>>
        /\ \A c \in ContextKeySet : registry.extensions[c] = {}

\* ------------------------------------------------------------------------
\* Further claims about the ordering
\* ------------------------------------------------------------------------
\* C31: a plugin is moved ahead of its priority position only to satisfy a
\* dependency: when x appears before y in the resolved order although y
\* ranks before x, x is a dependency, direct or transitive, of y or of a
\* plugin that ranks before y.
C31_AheadOnlyAsDependency ==
    OrderSucceeded =>
        \A x, y \in LoadedNames :
            (Before(x, y) /\ RanksBefore(y, x)) =>
                \E c \in LoadedNames :
                    /\ c = y \/ RanksBefore(c, y)
                    /\ x \in TransitiveDeps(c)

\* a chain: the last ranked plugin is placed first as a transitive, not a
\* declared, dependency of the first ranked one
C31_Witness ==
    /\ OrderSucceeded
    /\ Len(plugins) = 3
    /\ RanksBefore("p1", "p2") /\ RanksBefore("p2", "p3")
    /\ "p3" \in TransitiveDeps("p1") \ DeclaredDeps("p1")
    /\ sorted = <<"p3", "p2", "p1">>

\* C32: ordering never fails spuriously: a batch whose declared
\* dependencies all name plugins of the batch and whose dependency graph
\* has no cycle is ordered, with neither a circular-dependency nor a
\* missing-dependency error, also when a plugin is reached through two
\* paths or is the dependency of two plugins.
C32_NoSpuriousFailure ==
    (phase # "Unvalidated" /\ ~HasCycle /\ ~HasMissingDependency) =>
        /\ phase # "OrderFailed"
        /\ loadError = NoLoadError
        /\ Len(sorted) = Len(plugins)

\* p3 is a dependency of p1 and of p2, and p1 reaches it directly and
\* through p2
C32_Witness ==
    /\ phase = "Ordered"
    /\ Len(plugins) = 3
    /\ DeclaredDeps("p1") = {"p2", "p3"}
    /\ DeclaredDeps("p2") = {"p3"}
    /\ DeclaredDeps("p3") = {}
    /\ sorted = <<"p3", "p2", "p1">>

\* ------------------------------------------------------------------------
\* Further claims about the apply pass
\* ------------------------------------------------------------------------
\* C33: a write rejected under the ERROR strategy does not stay in the
\* shared context: once applyPluginExtensions has thrown the conflict
\* error, the contested key holds the value its previous owner wrote and
\* the previous owner is still its recorded owner.
C33_RejectedWriteNotKept ==
    (/\ phase = "ApplyFailed"
     /\ applyError.kind = "conflict"
     /\ CrossPluginWrite(Len(invoked))
     /\ applyError.path = TargetOf(Len(invoked))) =>
            /\ ValueAt(TargetOf(Len(invoked))) =
                   InvokedCallback(LastWriteBefore(Len(invoked))).val
            /\ OwnerIs(TargetOf(Len(invoked)), applyError.owner)

\* C34: a MERGE resolution is applied once per collision: once the merged
\* value of a key is stored, a later callback that does not write the key,
\* of the merging plugin or of another MERGE plugin, leaves the value of
\* the key as it is.
C34_MergeAppliedOnce ==
    [][(/\ phase = "Applying"
        /\ CurrentCallback.kind = "write"
        /\ CurrentTarget # <<"global", "x">>
        /\ context["global"].defined
        /\ HasProp(context["global"].props, "x")) =>
           GetProp(context'["global"].props, "x") = GetProp(context["global"].props, "x")]_vars

\* ------------------------------------------------------------------------
\* Claims about the errors of the ordering
\* ------------------------------------------------------------------------
\* C35: the circular-dependency error reports exactly a cycle: the names
\* are in traversal order, every name declares the next one as a
\* dependency, and the first and the last name are the same plugin, so no
\* plugin off the cycle is reported.
C35_ReportedPathIsCycle ==
    (phase = "OrderFailed" /\ loadError.kind = "circular") =>
        /\ Len(loadError.cycle) >= 2
        /\ \A i \in 1..(Len(loadError.cycle) - 1) :
              /\ loadError.cycle[i] \in LoadedNames
              /\ loadError.cycle[i + 1] \in DeclaredDeps(loadError.cycle[i])
        /\ loadError.cycle[1] = loadError.cycle[Len(loadError.cycle)]

\* C36: cycle detection runs over the whole batch before any plugin is
\* placed and before missing dependencies are looked at: a batch that has
\* both a dependency cycle and a missing dependency fails with the
\* circular-dependency error, wherever the plugins involved stand in the
\* batch and whatever their priorities.
C36_CycleBeforeMissing ==
    (phase # "Unvalidated" /\ HasCycle /\ HasMissingDependency) =>
        /\ phase = "OrderFailed"
        /\ loadError.kind = "circular"
        /\ loadError.cycle # <<>>
        /\ loadError.dep = ""
        /\ sorted = <<>>

\* the plugin with the missing dependency is the first of the batch and
\* ranks first; the cycle is between the two plugins behind it
C36_Witness ==
    /\ phase = "OrderFailed"
    /\ loadError.kind = "circular"
    /\ Len(plugins) = 3
    /\ DeclaredDeps("p1") = {NotLoadedName}
    /\ DeclaredDeps("p2") = {"p3"}
    /\ DeclaredDeps("p3") = {"p2"}
    /\ RanksBefore("p1", "p2") /\ RanksBefore("p1", "p3")
    /\ DeclaredPriority("p1") > DeclaredPriority("p2")

\* C37: when ordering succeeds on a batch of pairwise distinct names, the
\* resolved order is a permutation of the batch: every plugin of the batch
\* appears in it exactly once and nothing else appears in it.
C37_OrderIsPermutation ==
    OrderSucceeded =>
        /\ Len(sorted) = Len(plugins)
        /\ \A a \in LoadedNames : Cardinality({i \in DOMAIN sorted : sorted[i] = a}) = 1
        /\ \A i \in DOMAIN sorted : sorted[i] \in LoadedNames

\* a plugin that is a dependency of two plugins and is visited a third time
\* in its own turn; the order differs from the batch
C37_Witness ==
    /\ OrderSucceeded
    /\ Len(plugins) = 3
    /\ DeclaredDeps("p1") = {"p3"}
    /\ DeclaredDeps("p2") = {"p3"}
    /\ sorted = <<"p3", "p1", "p2">>

\* ------------------------------------------------------------------------
\* Further claims about the PluginRegistry
\* ------------------------------------------------------------------------
\* load() was called while another call of load() was in flight
LoadsOverlapped == \E i \in DOMAIN opLog : opLog[i].op = "overlapCall"
SetUp == {setupLog[i] : i \in DOMAIN setupLog}
Registered == {registry.plugins[i].id : i \in DOMAIN registry.plugins}

\* every registered plugin has an asynchronous setup
AllSetupsAsync == \A i \in DOMAIN registry.plugins : registry.plugins[i].setup = "async"

\* C38: when two calls of load() overlap, the second being made while the
\* first is suspended in an asynchronous setup, the setup of every
\* registered plugin is still invoked only once, and a call resolves only
\* when every registered plugin has been set up.
C38_OverlappingLoadsSetUpOnce ==
    (LoadsOverlapped /\ AllSetupsAsync) =>
        /\ \A i, j \in DOMAIN setupLog : setupLog[i] = setupLog[j] => i = j
        /\ (opLog[Len(opLog)].op \in {"loadDone", "overlapDone"}) => Registered \subseteq SetUp

\* no callback invoked so far in the pass wrote the property of the host
HostTargetUnwritten ==
    \A m \in DOMAIN invoked : ~(IsWrite(m) /\ TargetOf(m) = HostTarget)

\* C39: ownership is scoped to one apply pass: the pass starts with an
\* empty ownership map, so a key that is in the shared context when the
\* pass starts has no owner, and the first plugin of the pass that writes
\* it takes ownership with no warning, no error and no merge: the key holds
\* the value written.
C39_PreexistingKeyUnowned ==
    /\ [][phase' = "Applying" /\ phase = "Ordered" => propertyOwners' = <<>>]_vars
    /\ [][(/\ phase = "Applying"
           /\ CurrentCallback.kind = "write"
           /\ CurrentTarget = HostTarget
           /\ HostTargetUnwritten) =>
              /\ phase' # "ApplyFailed"
              /\ warnings' = warnings
              /\ GetProp(context'[HostTarget[1]].props, HostTarget[2]) = CurrentCallback.val
              /\ HostTarget \in DOMAIN propertyOwners'
              /\ propertyOwners'[HostTarget] = CurrentPlugin.name]_vars

\* ------------------------------------------------------------------------
\* Claims about loadPlugins
\* ------------------------------------------------------------------------
RECURSIVE FailedOf(_)
\* the identifiers of a list that fail to load, with their messages
FailedOf(ids) ==
    IF ids = <<>> THEN <<>>
    ELSE IF Head(ids).outcome # "ok"
         THEN <<[identifier |-> Head(ids).identifier, message |-> Head(ids).outcome]>>
                  \o FailedOf(Tail(ids))
         ELSE FailedOf(Tail(ids))

\* C40: loadPlugins attempts every identifier of its input, also after one
\* has failed; if one failed it throws one 'Failed to load plugins' error
\* that lists every failed identifier with its message and returns no
\* list; the ordering is performed only when every identifier loaded.
C40_AllAttemptedFailuresListed ==
    /\ Len(batchLoad.attempts) <= Len(batchLoad.identifiers)
    /\ \A i \in DOMAIN batchLoad.attempts :
          batchLoad.attempts[i] = batchLoad.identifiers[i].identifier
    /\ phase # "Loading" =>
          /\ Len(batchLoad.attempts) = Len(batchLoad.identifiers)
          /\ IF FailedOf(batchLoad.identifiers) # <<>>
             THEN /\ phase = "LoadFailed"
                  /\ loadError = FailedToLoadError
                  /\ batchLoad.thrown = FailedOf(batchLoad.identifiers)
                  /\ sorted = <<>>
             ELSE /\ phase \in {"Ordered", "OrderFailed"}
                  /\ batchLoad.thrown = <<>>
                  /\ Len(plugins) = Len(batchLoad.identifiers)

\* the first and the third identifier failed, the second loaded
C40_Witness ==
    /\ phase = "LoadFailed"
    /\ Len(batchLoad.identifiers) = 3
    /\ batchLoad.identifiers[1].outcome = "importFailed"
    /\ batchLoad.identifiers[2].outcome = "ok"
    /\ batchLoad.identifiers[3].outcome = "setupFailed"
    /\ Len(batchLoad.attempts) = 3
    /\ Len(batchLoad.thrown) = 2
    /\ Len(plugins) = 1

====
